---- MODULE Spec2Model ----
(***************************************************************************)
(* Model of src/lib/metrics.ts of the social metric dashboard: the CSV     *)
(* ingestion / normalisation / merge / aggregation pipeline behind         *)
(* getDashboardData.                                                       *)
(*                                                                         *)
(* Conventions                                                             *)
(*  - A JavaScript Date is its time value, counted in minutes since        *)
(*    1970-01-01T00:00Z (no input of the model has a finer resolution), so *)
(*    the code's dayMs (24*60*60*1000 ms) is 24*60 ticks here.             *)
(*  - A nullable value is a tuple: <<>> for null, <<v>> for a value; a     *)
(*    nullable ratio n/d is <<n, d>> (JavaScript's division is modelled    *)
(*    exactly, as a fraction), null is <<>>.                               *)
(*  - A JavaScript Map is the sequence of its [key, value] entries in      *)
(*    insertion order (the order Map.values() iterates in).                *)
(***************************************************************************)
EXTENDS Integers, Sequences, FiniteSets, TLC

VARIABLES
    phase,      \* position of the Merge Engine / Aggregator run
    metrics,    \* argument of mergeDailyMetrics
    daily,      \* mergeDailyMetrics(metrics)
    remerged,   \* mergeDailyMetrics(daily)
    monthly,    \* aggregateByMonth(daily)
    totals,     \* summarizeTotals(monthly)
    quality,    \* buildDataQuality(label, daily)
    momOut,     \* calculateMomGrowth(monthly).mom
    call,       \* a call of a function of the Field Normalizer or the
                \* Validation Reporter: its name and arguments
    result,     \* <<what the call returned>>, <<>> before it returns
    provider,   \* File Provider snapshot: the files of each dataset
    hostOffset, \* the host's local time is UTC + offset minutes
    pc,         \* position of getDashboardData
    xpc,        \* position of its call of loadXDailyMetrics
    lpc,        \* position of its call of loadLinkedInDailyMetrics
    linkedInPostsData,    \* what loadLinkedInPostsData resolved to
    xPostsData,           \* what loadXPostsData resolved to
    xVideo,               \* what loadXVideoOverviewByDate resolved to
    xDailyResult,         \* what loadXDailyMetrics resolved to
    linkedInDailyResult,  \* what loadLinkedInDailyMetrics resolved to
    dashboard             \* the DashboardData getDashboardData resolved to

mergeVars == <<phase, metrics, daily, remerged, monthly, totals, quality, momOut>>

callVars == <<call, result>>

pipeVars ==
    <<provider, hostOffset, pc, xpc, lpc, linkedInPostsData, xPostsData, xVideo,
      xDailyResult, linkedInDailyResult, dashboard>>

vars == <<mergeVars, callVars, pipeVars>>

----------------------------------------------------------------------------
(* Bounds of the model *)

\* number of export files concatenated into one argument of mergeDailyMetrics
MaxFiles == 2

----------------------------------------------------------------------------
(* Generic helpers *)

Null == <<>>

Some(v) == <<v>>

Max(a, b) == IF a >= b THEN a ELSE b

Range(s) == {s[i] : i \in DOMAIN s}

RECURSIVE FlatMap(_)
FlatMap(ss) == IF ss = <<>> THEN <<>> ELSE Head(ss) \o FlatMap(Tail(ss))

\* sequences over S of length 0..n
SeqUpTo(S, n) == UNION {[1..k -> S] : k \in 0..n}

----------------------------------------------------------------------------
(* Dates *)

\* ticks (minutes) per day; the code's dayMs in the model's unit
dayMs == 24 * 60

\* floor division (dates before 1970 have negative time values)
FloorDiv(a, b) == IF a >= 0 THEN a \div b ELSE -(((-a) + b - 1) \div b)

\* ECMAScript Day(t)
DayOf(t) == FloorDiv(t, dayMs)

\* Civil date <<year, month (1..12), day>> of a day number (days since
\* 1970-01-01): what getUTCFullYear / getUTCMonth()+1 / getUTCDate return.
CivilFromDays(z0) ==
    LET z   == z0 + 719468
        era == FloorDiv(z, 146097)
        doe == z - era * 146097
        yoe == (doe - doe \div 1460 + doe \div 36524 - doe \div 146096) \div 365
        doy == doe - (365 * yoe + yoe \div 4 - yoe \div 100)
        mp  == (5 * doy + 2) \div 153
        d   == doy - (153 * mp + 2) \div 5 + 1
        m   == IF mp < 10 THEN mp + 3 ELSE mp - 9
        y   == yoe + era * 400 + (IF m <= 2 THEN 1 ELSE 0)
    IN  <<y, m, d>>

\* Day number of the first day of month m (1..12) of year y.
DaysFromCivil(y0, m, d) ==
    LET y   == IF m <= 2 THEN y0 - 1 ELSE y0
        era == FloorDiv(y, 400)
        yoe == y - era * 400
        mp  == IF m > 2 THEN m - 3 ELSE m + 9
        doy == (153 * mp + 2) \div 5 + d - 1
        doe == yoe * 365 + yoe \div 4 - yoe \div 100 + doy
    IN  era * 146097 + doe - 719468

\* Date.UTC(year, monthIndex, day, hour, minute): ECMAScript MakeDay/MakeTime,
\* an out-of-range month or day rolls over into the next month or year.
DateUTC(year, monthIndex, day, hour, minute) ==
    LET ym == year + FloorDiv(monthIndex, 12)
        mn == monthIndex - 12 * FloorDiv(monthIndex, 12)
    IN  (DaysFromCivil(ym, mn + 1, 1) + day - 1) * dayMs + hour * 60 + minute

\* toMonthKey: `${year}-${month}`, as the pair it is built from
toMonthKey(date) ==
    LET c == CivilFromDays(DayOf(date)) IN <<c[1], c[2]>>

\* toDayKey: `${year}-${month}-${day}`, as the triple it is built from
toDayKey(date) == CivilFromDays(DayOf(date))

\* number of calendar days of the month a month key names
DaysInMonth(monthKey) ==
    LET y == monthKey[1]
        m == monthKey[2]
    IN  IF m = 12 THEN DaysFromCivil(y + 1, 1, 1) - DaysFromCivil(y, 12, 1)
        ELSE DaysFromCivil(y, m + 1, 1) - DaysFromCivil(y, m, 1)

----------------------------------------------------------------------------
(* Strings: a cell of a CSV file is a string, read character by character *)

CharAt(str, i) == SubSeq(str, i, i)

UpperLetters ==
    {"A", "B", "C", "D", "E", "F", "G", "H", "I", "J", "K", "L", "M",
     "N", "O", "P", "Q", "R", "S", "T", "U", "V", "W", "X", "Y", "Z"}

LowerLetters ==
    {"a", "b", "c", "d", "e", "f", "g", "h", "i", "j", "k", "l", "m",
     "n", "o", "p", "q", "r", "s", "t", "u", "v", "w", "x", "y", "z"}

Digits == {"0", "1", "2", "3", "4", "5", "6", "7", "8", "9"}

IsDigit(c) == c \in Digits

DigitValue(c) ==
    CASE c = "0" -> 0 [] c = "1" -> 1 [] c = "2" -> 2 [] c = "3" -> 3
      [] c = "4" -> 4 [] c = "5" -> 5 [] c = "6" -> 6 [] c = "7" -> 7
      [] c = "8" -> 8 [] c = "9" -> 9

LowerChar(c) ==
    IF c \notin UpperLetters THEN c
    ELSE CASE c = "A" -> "a" [] c = "B" -> "b" [] c = "C" -> "c"
           [] c = "D" -> "d" [] c = "E" -> "e" [] c = "F" -> "f"
           [] c = "G" -> "g" [] c = "H" -> "h" [] c = "I" -> "i"
           [] c = "J" -> "j" [] c = "K" -> "k" [] c = "L" -> "l"
           [] c = "M" -> "m" [] c = "N" -> "n" [] c = "O" -> "o"
           [] c = "P" -> "p" [] c = "Q" -> "q" [] c = "R" -> "r"
           [] c = "S" -> "s" [] c = "T" -> "t" [] c = "U" -> "u"
           [] c = "V" -> "v" [] c = "W" -> "w" [] c = "X" -> "x"
           [] c = "Y" -> "y" [] c = "Z" -> "z"
           [] OTHER -> c

UpperChar(c) ==
    IF c \notin LowerLetters THEN c
    ELSE CASE c = "a" -> "A" [] c = "b" -> "B" [] c = "c" -> "C"
           [] c = "d" -> "D" [] c = "e" -> "E" [] c = "f" -> "F"
           [] c = "g" -> "G" [] c = "h" -> "H" [] c = "i" -> "I"
           [] c = "j" -> "J" [] c = "k" -> "K" [] c = "l" -> "L"
           [] c = "m" -> "M" [] c = "n" -> "N" [] c = "o" -> "O"
           [] c = "p" -> "P" [] c = "q" -> "Q" [] c = "r" -> "R"
           [] c = "s" -> "S" [] c = "t" -> "T" [] c = "u" -> "U"
           [] c = "v" -> "V" [] c = "w" -> "W" [] c = "x" -> "X"
           [] c = "y" -> "Y" [] c = "z" -> "Z"
           [] OTHER -> c

\* String.prototype.toLowerCase
RECURSIVE toLowerCase(_)
toLowerCase(str) ==
    IF str = "" THEN "" ELSE LowerChar(Head(str)) \o toLowerCase(Tail(str))

RECURSIVE TrimStart(_)
TrimStart(str) ==
    IF str # "" /\ Head(str) = " " THEN TrimStart(Tail(str)) ELSE str

RECURSIVE TrimEnd(_)
TrimEnd(str) ==
    IF str # "" /\ CharAt(str, Len(str)) = " "
    THEN TrimEnd(SubSeq(str, 1, Len(str) - 1))
    ELSE str

\* String.prototype.trim
trim(str) == TrimEnd(TrimStart(str))

\* str.replace(/,/g, "")
RECURSIVE RemoveCommas(_)
RemoveCommas(str) ==
    IF str = "" THEN ""
    ELSE IF Head(str) = "," THEN RemoveCommas(Tail(str))
    ELSE Head(str) \o RemoveCommas(Tail(str))

\* str.includes(c) for a character c
Includes(str, c) == \E i \in 1 .. Len(str) : CharAt(str, i) = c

\* str.split(c) for a character c that str holds: <<before, after>> its
\* first occurrence
SplitAtIndex(str, i) ==
    <<SubSeq(str, 1, i - 1), SubSeq(str, i + 1, Len(str))>>

\* str.indexOf(c) for a character c that str holds (counted from 1)
IndexOf(str, c) ==
    CHOOSE k \in 1 .. Len(str) :
        /\ CharAt(str, k) = c
        /\ \A j \in 1 .. k - 1 : CharAt(str, j) # c

SplitAt(str, c) == SplitAtIndex(str, IndexOf(str, c))

AllDigits(str) == str # "" /\ \A i \in 1 .. Len(str) : IsDigit(CharAt(str, i))

\* the value of a string of digits
RECURSIVE DigitsValue(_)
DigitsValue(str) ==
    IF str = "" THEN 0
    ELSE 10 * DigitsValue(SubSeq(str, 1, Len(str) - 1))
         + DigitValue(CharAt(str, Len(str)))

RECURSIVE Pow10(_)
Pow10(n) == IF n = 0 THEN 1 ELSE 10 * Pow10(n - 1)

\* an unsigned decimal literal: digits, or digits "." digits, or "." digits,
\* or digits "."; <<numerator, denominator>>, or Null when it is none
DecimalOf(whole, frac) ==
    IF /\ whole \o frac # ""
       /\ (whole = "" \/ AllDigits(whole))
       /\ (frac = "" \/ AllDigits(frac))
    THEN <<DigitsValue(whole) * Pow10(Len(frac)) + DigitsValue(frac),
           Pow10(Len(frac))>>
    ELSE Null

UnsignedDecimal(str) ==
    IF AllDigits(str) THEN <<DigitsValue(str), 1>>
    ELSE IF Includes(str, ".")
    THEN DecimalOf(SplitAt(str, ".")[1], SplitAt(str, ".")[2])
    ELSE Null

\* the negative of a literal's value
Negative(u) == IF u = Null THEN Null ELSE <<-u[1], u[2]>>

\* StringToNumber on a string without white space around it
StrNumericLiteral(t) ==
    IF t = "" THEN <<0, 1>>
    ELSE IF Head(t) = "-" THEN Negative(UnsignedDecimal(Tail(t)))
    ELSE IF Head(t) = "+" THEN UnsignedDecimal(Tail(t))
    ELSE UnsignedDecimal(t)

\* Number(str) (ECMAScript StringToNumber) on the characters of the model:
\* white space is trimmed, the empty string is 0, a signed decimal literal is
\* its value <<numerator, denominator>>, and anything else is NaN, here Null
\* (as is "Infinity", which the callers treat like NaN)
StringToNumber(str) == StrNumericLiteral(trim(str))

----------------------------------------------------------------------------
(* Field Normalizer *)

\* toNumber on a cell. The counters of the model are integers: the cells it
\* reads counters from hold no fraction, and a literal with a fraction is
\* cut to its integer part.
FiniteOrZero(parsed) ==
    IF parsed = Null THEN 0 ELSE parsed[1] \div parsed[2]

toNumber(value) ==
    IF value = "" THEN 0
    ELSE FiniteOrZero(StringToNumber(trim(RemoveCommas(value))))

\* parseRate on a cell: null, or the ratio <<numerator, denominator>>
parseRate(value) ==
    IF value = "" THEN Null ELSE StringToNumber(trim(value))

\* calculateEngagementRate: null, or the ratio <<numerator, denominator>>
calculateEngagementRate(impressions, likes, comments, reposts) ==
    IF impressions = 0 THEN Null
    ELSE <<likes + comments + reposts, impressions>>

\* str.split(c) for a character c: the pieces between its occurrences
RECURSIVE Split(_, _)
Split(str, c) ==
    IF ~Includes(str, c) THEN <<str>>
    ELSE <<SplitAt(str, c)[1]>> \o Split(SplitAt(str, c)[2], c)

\* str.split(/\s+/) on a trimmed string: its words
RECURSIVE Words(_)
Words(str) ==
    IF ~Includes(str, " ") THEN <<str>>
    ELSE <<SplitAt(str, " ")[1]>> \o Words(TrimStart(SplitAt(str, " ")[2]))

\* String.prototype.toUpperCase
RECURSIVE toUpperCase(_)
toUpperCase(str) ==
    IF str = "" THEN "" ELSE UpperChar(Head(str)) \o toUpperCase(Tail(str))

\* String(n).padStart(width, "0") for n >= 0
RECURSIVE PadStart(_, _)
PadStart(str, width) ==
    IF Len(str) >= width THEN str ELSE PadStart("0" \o str, width)

\* Date.prototype.toISOString (the model's dates have whole minutes)
ISOString(c, minute) ==
    PadStart(ToString(c[1]), 4) \o "-" \o PadStart(ToString(c[2]), 2)
    \o "-" \o PadStart(ToString(c[3]), 2) \o "T"
    \o PadStart(ToString(minute \div 60), 2) \o ":"
    \o PadStart(ToString(minute % 60), 2) \o ":00.000Z"

toISOString(date) ==
    ISOString(CivilFromDays(DayOf(date)), date - DayOf(date) * dayMs)

\* a number as Date.UTC takes it: Null for NaN, else the integer
ToIntegerOrNaN(n) == IF n = Null THEN Null ELSE Some(n[1] \div n[2])

\* Number(part) as Date.UTC takes it
IntegerOf(str) == ToIntegerOrNaN(StringToNumber(str))

\* new Date(str).getTime() on a host whose local time is UTC + offset
\* minutes. The model reads two forms: the ISO date "YYYY-MM-DD", which
\* ECMAScript takes as UTC midnight, and "M/D/YYYY", which V8 takes as local
\* midnight. Any other string of the model's inputs is an Invalid Date: Null.
DateOfPieces(iso, slash, offset) ==
    IF /\ Len(iso) = 3
       /\ Len(iso[1]) = 4 /\ Len(iso[2]) = 2 /\ Len(iso[3]) = 2
       /\ \A i \in 1 .. 3 : AllDigits(iso[i])
       /\ DigitsValue(iso[2]) \in 1 .. 12
       /\ DigitsValue(iso[3]) \in
            1 .. DaysInMonth(<<DigitsValue(iso[1]), DigitsValue(iso[2])>>)
    THEN Some(DateUTC(DigitsValue(iso[1]), DigitsValue(iso[2]) - 1,
                      DigitsValue(iso[3]), 0, 0))
    ELSE IF /\ Len(slash) = 3
            /\ \A i \in 1 .. 3 : AllDigits(slash[i])
            /\ Len(slash[3]) = 4
            /\ DigitsValue(slash[1]) \in 1 .. 12
            /\ DigitsValue(slash[2]) \in
                 1 .. DaysInMonth(<<DigitsValue(slash[3]), DigitsValue(slash[1])>>)
    THEN Some(DateUTC(DigitsValue(slash[3]), DigitsValue(slash[1]) - 1,
                      DigitsValue(slash[2]), 0, 0) - offset)
    ELSE Null

DateParse(str, offset) == DateOfPieces(Split(str, "-"), Split(str, "/"), offset)

\* new Date(Date.UTC(year, monthIndex, day)) of a civil date <<y, m, d>>
UTCMidnight(c) == Some(DateUTC(c[1], c[2] - 1, c[3], 0, 0))

\* the host's local calendar day of a parsed instant, as a UTC midnight:
\* Date.UTC(getFullYear(), getMonth(), getDate())
LocalDay(parsed, offset) ==
    IF parsed = Null THEN Null
    ELSE UTCMidnight(CivilFromDays(DayOf(parsed[1] + offset)))

\* parseXDate
parseXDate(raw, offset) ==
    IF raw = "" THEN Null ELSE LocalDay(DateParse(raw, offset), offset)

\* parseXPostDate
parseXPostDate(raw, offset) ==
    IF raw = "" THEN Null ELSE DateParse(raw, offset)

\* LINKEDIN_DATE_FORMAT
LINKEDIN_DATE_FORMAT == "MDY"

\* Date.UTC's year: a year 0..99 is taken as 1900 + year
FullYear(year) == IF year \in 0 .. 99 THEN 1900 + year ELSE year

\* hour and minute of parseLinkedInDateTime for a time part and an AM/PM part
\* Number.isFinite(n) ? n : 0
FiniteOr0(n) == IF n # Null THEN n[1] ELSE 0

\* the AM/PM adjustment of the hour
Meridiem(hour, minute, ampm) ==
    IF ampm = "PM" /\ hour < 12 THEN <<hour + 12, minute>>
    ELSE IF ampm = "AM" /\ hour = 12 THEN <<0, minute>>
    ELSE <<hour, minute>>

TimeOfPieces(pieces, ampm) ==
    Meridiem(FiniteOr0(IntegerOf(pieces[1])), FiniteOr0(IntegerOf(pieces[2])),
             ampm)

LinkedInTime(timePart, ampmPart) ==
    IF ~Includes(timePart, ":") THEN <<0, 0>>
    ELSE TimeOfPieces(Split(timePart, ":"), toUpperCase(ampmPart))

\* the words of the cell after the date part, "" where there is none
WordOr(words, i) == IF Len(words) >= i THEN words[i] ELSE ""

\* new Date(Date.UTC(year, month - 1, day, hour, minute))
LinkedInUTC(p1, p2, year, time) ==
    IF LINKEDIN_DATE_FORMAT = "MDY"
    THEN Some(DateUTC(FullYear(year), p1 - 1, p2, time[1], time[2]))
    ELSE Some(DateUTC(FullYear(year), p2 - 1, p1, time[1], time[2]))

\* the numbers of the three date pieces, Null for a NaN
DateNumbers(datePieces) ==
    <<IntegerOf(datePieces[1]), IntegerOf(datePieces[2]),
      IntegerOf(datePieces[3])>>

LinkedInDateOfNumbers(trimmed, words, numbers, offset) ==
    IF \A i \in 1 .. 3 : numbers[i] # Null
    THEN LinkedInUTC(numbers[1][1], numbers[2][1], numbers[3][1],
                     LinkedInTime(WordOr(words, 2), WordOr(words, 3)))
    ELSE DateParse(trimmed, offset)

LinkedInDateOfPieces(trimmed, words, datePieces, offset) ==
    IF Len(datePieces) = 3
    THEN LinkedInDateOfNumbers(trimmed, words, DateNumbers(datePieces), offset)
    ELSE DateParse(trimmed, offset)

LinkedInDateOfWords(trimmed, words, offset) ==
    LinkedInDateOfPieces(trimmed, words, Split(words[1], "/"), offset)

\* parseLinkedInDateTime on a cell (a string)
parseLinkedInDateTime(raw, offset) ==
    IF raw = "" THEN Null
    ELSE LinkedInDateOfWords(trim(raw), Words(trim(raw)), offset)

\* parseLinkedInDateTime on a number, the ratio <<numerator, denominator>>:
\* new Date(Date.UTC(1899, 11, 30).getTime() + raw * 24 * 60 * 60 * 1000)
SerialDate(raw) == Some(DateUTC(1899, 11, 30, 0, 0) + (raw[1] * dayMs) \div raw[2])

\* if (!raw) return null: 0 is falsy
parseLinkedInDateTimeNumber(raw) ==
    IF raw[1] = 0 THEN Null ELSE SerialDate(raw)

\* date.getUTCDay(): 0 is Sunday; 1970-01-01 was a Thursday
getUTCDay(date) == (DayOf(date) + 4) % 7

\* date.getUTCHours()
getUTCHours(date) == (date - DayOf(date) * dayMs) \div 60

dayNames == <<"Sun", "Mon", "Tue", "Wed", "Thu", "Fri", "Sat">>

\* the UTC calendar day of an instant, as a UTC midnight
UTCDay(dateTime) ==
    IF dateTime = Null THEN Null
    ELSE UTCMidnight(CivilFromDays(DayOf(dateTime[1])))

\* parseLinkedInDate
parseLinkedInDate(raw, offset) == UTCDay(parseLinkedInDateTime(raw, offset))

----------------------------------------------------------------------------
(* DailyMetric *)

METRIC_KEYS ==
    << "views", "likes", "comments", "reposts", "clicks", "shares",
       "bookmarks", "profileVisits", "engagements", "videoViews",
       "videoWatchViews", "videoWatchTimeMs", "videoCompletionRateSum",
       "posts", "newFollows", "unfollows" >>

MetricKeySet == Range(METRIC_KEYS)

Platform == {"x", "linkedin"}

\* a DailyMetric with the counters given in METRIC_KEYS order
DailyMetric(source, date, counters) ==
    [source |-> source, date |-> date, views |-> counters[1],
     likes |-> counters[2], comments |-> counters[3],
     reposts |-> counters[4], clicks |-> counters[5],
     shares |-> counters[6], bookmarks |-> counters[7],
     profileVisits |-> counters[8], engagements |-> counters[9],
     videoViews |-> counters[10], videoWatchViews |-> counters[11],
     videoWatchTimeMs |-> counters[12],
     videoCompletionRateSum |-> counters[13], posts |-> counters[14],
     newFollows |-> counters[15], unfollows |-> counters[16]]

----------------------------------------------------------------------------
(* Map, in insertion order *)

MapHas(m, key) == \E i \in DOMAIN m : m[i][1] = key

MapGet(m, key) == m[CHOOSE i \in DOMAIN m : m[i][1] = key][2]

\* Map.set: a present key keeps its place, a new key goes last
MapSet(m, key, value) ==
    IF MapHas(m, key)
    THEN LET at == CHOOSE i \in DOMAIN m : m[i][1] = key
         IN  SubSeq(m, 1, at - 1) \o << <<key, value>> >>
             \o SubSeq(m, at + 1, Len(m))
    ELSE Append(m, <<key, value>>)

MapValues(m) == [i \in DOMAIN m |-> m[i][2]]

\* sorted with a pair put after its first `before` pairs
InsertAt(sorted, pair, before) ==
    SubSeq(sorted, 1, before) \o <<pair>>
    \o SubSeq(sorted, before + 1, Len(sorted))

\* an unstable sort: a pair goes before the pairs of the same key
InsertSortedUnstable(sorted, pair) ==
    InsertAt(sorted, pair,
             Cardinality({i \in DOMAIN sorted : sorted[i][1] < pair[1]}))

\* Array.prototype.sort is stable: insertion into a list of <<key, item>>
\* pairs sorted by key, after every pair whose key is not greater
InsertSorted(sorted, pair) ==
    InsertAt(sorted, pair,
             Cardinality({i \in DOMAIN sorted : sorted[i][1] <= pair[1]}))

\* sorted holds the first Len(sorted) pairs, in order
RECURSIVE SortInto(_, _)
SortInto(sorted, pairs) ==
    IF Len(sorted) = Len(pairs) THEN sorted
    ELSE SortInto(InsertSorted(sorted, pairs[Len(sorted) + 1]), pairs)

StableSort(pairs) == SortInto(<<>>, pairs)

\* list.sort((a, b) => Key(a) - Key(b))
SortBy(list, Key(_)) ==
    MapValues(StableSort([i \in DOMAIN list |-> <<Key(list[i]), list[i]>>]))

----------------------------------------------------------------------------
(* Merge Engine *)

\* a key that tells the exports of a day apart by their views
MergeKeyPerExport(metric) ==
    <<metric.source, toDayKey(metric.date), metric.views>>

\* `${metric.source}-${toDayKey(metric.date)}`, as the pair it is built from
MergeKey(metric) == <<metric.source, toDayKey(metric.date)>>

\* a merge that adds the duplicates up (double counting)
MergeFieldSum(existing, metric, field) == existing[field] + metric[field]

\* merged[field] = Math.max(existing[field], metric[field])
MergeField(existing, metric, field) == Max(existing[field], metric[field])

\* METRIC_KEYS.forEach(field => merged[field] = Math.max(...))
RECURSIVE MergeFields(_, _, _, _)
MergeFields(merged, existing, metric, fields) ==
    IF fields = <<>> THEN merged
    ELSE MergeFields([merged EXCEPT
                         ![Head(fields)] = MergeField(existing, metric, Head(fields))],
                     existing, metric, Tail(fields))

\* a merge that keeps the later record of a day
MergeExistingLastWins(byDay, key, metric) == MapSet(byDay, key, metric)

\* the day has a record: byDay.set(key, merged)
MergeExisting(byDay, key, metric) ==
    MapSet(byDay, key,
           MergeFields(MapGet(byDay, key), MapGet(byDay, key), metric,
                       METRIC_KEYS))

\* metrics.forEach in mergeDailyMetrics; key is that of the list's first record
RECURSIVE MergeAll(_, _)
RECURSIVE MergeNext(_, _, _)
MergeNext(byDay, key, list) ==
    IF ~MapHas(byDay, key)
    THEN MergeAll(MapSet(byDay, key, Head(list)), Tail(list))
    ELSE MergeAll(MergeExisting(byDay, key, Head(list)), Tail(list))

MergeAll(byDay, list) ==
    IF list = <<>> THEN byDay ELSE MergeNext(byDay, MergeKey(Head(list)), list)

GetTime(metric) == metric.date

\* the values of the map as they were inserted, without the sort
mergeDailyMetricsUnsorted(list) == MapValues(MergeAll(<<>>, list))

mergeDailyMetrics(list) == SortBy(MapValues(MergeAll(<<>>, list)), GetTime)

----------------------------------------------------------------------------
(* Aggregator *)

\* The MonthSummary a month's first DailyMetric opens (its label, made by
\* formatMonthLabel from the month key alone, is left out).
NewBucket(monthKey, metric) ==
    [monthKey |-> monthKey, views |-> metric.views, likes |-> metric.likes,
     comments |-> metric.comments, reposts |-> metric.reposts,
     clicks |-> metric.clicks, shares |-> metric.shares,
     bookmarks |-> metric.bookmarks, profileVisits |-> metric.profileVisits,
     engagements |-> metric.engagements, videoViews |-> metric.videoViews,
     videoWatchViews |-> metric.videoWatchViews,
     videoWatchTimeMs |-> metric.videoWatchTimeMs,
     videoCompletionRateSum |-> metric.videoCompletionRateSum,
     posts |-> metric.posts, newFollows |-> metric.newFollows,
     unfollows |-> metric.unfollows, days |-> 1]

\* a bucket that keeps the largest day instead of adding the days up
AddToBucketMax(existing, metric) ==
    [monthKey |-> existing.monthKey,
     views |-> Max(existing.views, metric.views),
     likes |-> Max(existing.likes, metric.likes),
     comments |-> Max(existing.comments, metric.comments),
     reposts |-> Max(existing.reposts, metric.reposts),
     clicks |-> Max(existing.clicks, metric.clicks),
     shares |-> Max(existing.shares, metric.shares),
     bookmarks |-> Max(existing.bookmarks, metric.bookmarks),
     profileVisits |-> Max(existing.profileVisits, metric.profileVisits),
     engagements |-> Max(existing.engagements, metric.engagements),
     videoViews |-> Max(existing.videoViews, metric.videoViews),
     videoWatchViews |-> Max(existing.videoWatchViews, metric.videoWatchViews),
     videoWatchTimeMs |-> Max(existing.videoWatchTimeMs, metric.videoWatchTimeMs),
     videoCompletionRateSum |-> Max(existing.videoCompletionRateSum, metric.videoCompletionRateSum),
     posts |-> Max(existing.posts, metric.posts),
     newFollows |-> Max(existing.newFollows, metric.newFollows),
     unfollows |-> Max(existing.unfollows, metric.unfollows),
     days |-> existing.days + 1]

\* existing.<field> += metric.<field>; existing.days += 1
AddToBucket(existing, metric) ==
    [monthKey |-> existing.monthKey,
     views |-> existing.views + metric.views,
     likes |-> existing.likes + metric.likes,
     comments |-> existing.comments + metric.comments,
     reposts |-> existing.reposts + metric.reposts,
     clicks |-> existing.clicks + metric.clicks,
     shares |-> existing.shares + metric.shares,
     bookmarks |-> existing.bookmarks + metric.bookmarks,
     profileVisits |-> existing.profileVisits + metric.profileVisits,
     engagements |-> existing.engagements + metric.engagements,
     videoViews |-> existing.videoViews + metric.videoViews,
     videoWatchViews |-> existing.videoWatchViews + metric.videoWatchViews,
     videoWatchTimeMs |-> existing.videoWatchTimeMs + metric.videoWatchTimeMs,
     videoCompletionRateSum |-> existing.videoCompletionRateSum + metric.videoCompletionRateSum,
     posts |-> existing.posts + metric.posts,
     newFollows |-> existing.newFollows + metric.newFollows,
     unfollows |-> existing.unfollows + metric.unfollows,
     days |-> existing.days + 1]

\* daily.forEach in aggregateByMonth; monthKey is that of the list's first
\* record
RECURSIVE BucketAll(_, _)
RECURSIVE BucketNext(_, _, _)
BucketNext(buckets, monthKey, list) ==
    IF ~MapHas(buckets, monthKey)
    THEN BucketAll(MapSet(buckets, monthKey, NewBucket(monthKey, Head(list))),
                   Tail(list))
    ELSE BucketAll(MapSet(buckets, monthKey,
                          AddToBucket(MapGet(buckets, monthKey), Head(list))),
                   Tail(list))

BucketAll(buckets, list) ==
    IF list = <<>> THEN buckets
    ELSE BucketNext(buckets, toMonthKey(Head(list).date), list)

\* a.monthKey.localeCompare(b.monthKey) on "YYYY-MM" strings: for the
\* four-digit years of the model, the order of year * 12 + month
MonthOrder(month) == month.monthKey[1] * 12 + month.monthKey[2]

aggregateByMonth(list) == SortBy(MapValues(BucketAll(<<>>, list)), MonthOrder)

TotalsZero ==
    [monthKey |-> <<>>, views |-> 0, likes |-> 0, comments |-> 0,
     reposts |-> 0, clicks |-> 0, shares |-> 0, bookmarks |-> 0,
     profileVisits |-> 0, engagements |-> 0, videoViews |-> 0,
     videoWatchViews |-> 0, videoWatchTimeMs |-> 0,
     videoCompletionRateSum |-> 0, posts |-> 0, newFollows |-> 0,
     unfollows |-> 0, days |-> 0]

\* the reducer of summarizeTotals: acc.<field> += month.<field>
AddToTotals(acc, month) ==
    [monthKey |-> acc.monthKey, views |-> acc.views + month.views,
     likes |-> acc.likes + month.likes,
     comments |-> acc.comments + month.comments,
     reposts |-> acc.reposts + month.reposts,
     clicks |-> acc.clicks + month.clicks,
     shares |-> acc.shares + month.shares,
     bookmarks |-> acc.bookmarks + month.bookmarks,
     profileVisits |-> acc.profileVisits + month.profileVisits,
     engagements |-> acc.engagements + month.engagements,
     videoViews |-> acc.videoViews + month.videoViews,
     videoWatchViews |-> acc.videoWatchViews + month.videoWatchViews,
     videoWatchTimeMs |-> acc.videoWatchTimeMs + month.videoWatchTimeMs,
     videoCompletionRateSum |-> acc.videoCompletionRateSum + month.videoCompletionRateSum,
     posts |-> acc.posts + month.posts,
     newFollows |-> acc.newFollows + month.newFollows,
     unfollows |-> acc.unfollows + month.unfollows,
     days |-> acc.days + month.days]

RECURSIVE ReduceTotals(_, _)
ReduceTotals(acc, months) ==
    IF months = <<>> THEN acc
    ELSE ReduceTotals(AddToTotals(acc, Head(months)), Tail(months))

summarizeTotals(months) == ReduceTotals(TotalsZero, months)

\* the coverage of a list sorted by date
CoverageOf(sorted) ==
    [start |-> Some(sorted[1].date),
     end   |-> Some(sorted[Len(sorted)].date),
     days  |-> Len(sorted)]

buildCoverage(list) ==
    IF Len(list) = 0
    THEN [start |-> Null, end |-> Null, days |-> 0]
    ELSE CoverageOf(SortBy(list, GetTime))

\* Math.round(a / b) for b > 0: the nearest integer, a half rounding up
MathRoundDiv(a, b) == FloorDiv(2 * a + b, 2 * b)

\* the span without its last day
ExpectedDaysExclusive(coverage) ==
    MathRoundDiv(coverage.end[1] - coverage.start[1], dayMs)

\* expectedDays of buildDataQuality
ExpectedDays(coverage) ==
    MathRoundDiv(coverage.end[1] - coverage.start[1], dayMs) + 1

\* buildDataQuality, once the coverage is built
DataQualityOf(label, list, coverage) ==
    IF coverage.start = Null \/ coverage.end = Null
    THEN [label |-> label, coverage |-> coverage, expectedDays |-> Null,
          missingDays |-> Null, zeroViewDays |-> 0]
    ELSE [label |-> label, coverage |-> coverage,
          expectedDays |-> Some(ExpectedDays(coverage)),
          missingDays  |-> Some(Max(ExpectedDays(coverage) - coverage.days, 0)),
          zeroViewDays |->
              Cardinality({i \in DOMAIN list : list[i].views = 0})]

buildDataQuality(label, list) ==
    DataQualityOf(label, list, buildCoverage(list))

\* percentDelta without its guard: divides by a previous of zero
percentDeltaUnguarded(previous, current) == <<current - previous, previous>>

\* percentDelta: null when previous is 0, else (current - previous) / previous
percentDelta(previous, current) ==
    IF previous = 0 THEN Null ELSE <<current - previous, previous>>

MomKeys == {"views", "likes", "comments", "reposts", "posts"}

\* the month calculateMomGrowth takes as `last`
MomLast(months) == months[Len(months)]

\* the month calculateMomGrowth takes as `prev`
MomPrev(months) == months[Len(months) - 1]

\* calculateMomGrowth(monthly).mom
calculateMomGrowth(months) ==
    IF Len(months) < 2
    THEN [k \in MomKeys |-> Null]
    ELSE [k \in MomKeys |-> percentDelta(MomPrev(months)[k], MomLast(months)[k])]

---------------------------------------------------------------------------------------------------------------------------------------------------
(* Validation Reporter *)

ColumnGroup(label, fields) == [label |-> label, fields |-> fields]

\* map(f) of a list of records onto one of their fields
Labels(groups) == [i \in DOMAIN groups |-> groups[i].label]

\* a lookup that forgets to lower-case the group's fields
GroupMissingCaseSensitive(headersLower, group) ==
    \A i \in DOMAIN group.fields : group.fields[i] \notin headersLower

\* the group has no field among the lower-cased headers
GroupMissing(headersLower, group) ==
    \A i \in DOMAIN group.fields : toLowerCase(group.fields[i]) \notin headersLower

findMissingGroups(headersLower, groups) ==
    LET Missing(group) == GroupMissing(headersLower, group)
    IN  Labels(SelectSeq(groups, Missing))

\* buildCsvValidation (the filePath label, made from the file names alone,
\* is left out)
buildCsvValidation(id, source, rowCount, headers, requiredGroups, optionalGroups) ==
    LET headersLower == {toLowerCase(headers[i]) : i \in DOMAIN headers}
    IN  [id |-> id, source |-> source, rowCount |-> rowCount,
         missingRequired |-> findMissingGroups(headersLower, requiredGroups),
         missingOptional |-> findMissingGroups(headersLower, optionalGroups)]

\* the column groups of the five datasets
RequiredGroups(id) ==
    CASE id = "x-daily" ->
           << ColumnGroup("Date", <<"Date">>),
              ColumnGroup("Impressions", <<"Impressions">>) >>
      [] id = "x-video-overview" ->
           << ColumnGroup("Date", <<"Date">>),
              ColumnGroup("Views", <<"Views">>),
              ColumnGroup("Watch Time (ms)", <<"Watch Time (ms)">>) >>
      [] id = "x-posts" ->
           << ColumnGroup("Impressions", <<"Impressions">>),
              ColumnGroup("Post text or link",
                          <<"Tweet text", "Text", "Post text", "Post", "Tweet",
                            "Tweet permalink", "Post Link", "Permalink">>) >>
      [] id = "linkedin-daily" ->
           << ColumnGroup("Date", <<"Date">>),
              ColumnGroup("Impressions",
                          <<"Impressions (total)", "Impressions",
                            "Impressions (organic)">>) >>
      [] id = "linkedin-posts" ->
           << ColumnGroup("Created date", <<"Created date", "Created Date">>),
              ColumnGroup("Impressions", <<"Impressions">>) >>

OptionalGroups(id) ==
    CASE id = "x-daily" ->
           << ColumnGroup("Likes", <<"Likes">>),
              ColumnGroup("Replies", <<"Replies">>),
              ColumnGroup("Reposts", <<"Reposts", "Retweets">>),
              ColumnGroup("Shares", <<"Shares">>),
              ColumnGroup("Bookmarks", <<"Bookmarks">>),
              ColumnGroup("Profile visits", <<"Profile visits">>),
              ColumnGroup("Engagements", <<"Engagements">>),
              ColumnGroup("Video views", <<"Video views">>),
              ColumnGroup("Create Post", <<"Create Post">>),
              ColumnGroup("New follows", <<"New follows">>),
              ColumnGroup("Unfollows", <<"Unfollows">>) >>
      [] id = "x-video-overview" ->
           << ColumnGroup("Completion Rate", <<"Completion Rate">>) >>
      [] id = "x-posts" ->
           << ColumnGroup("Likes", <<"Likes">>),
              ColumnGroup("Replies", <<"Replies">>),
              ColumnGroup("Reposts", <<"Reposts", "Retweets", "Retweets (organic)">>),
              ColumnGroup("Engagements", <<"Engagements">>),
              ColumnGroup("Engagement rate", <<"Engagement rate">>),
              ColumnGroup("Created at", <<"Time", "time", "Created at", "Date">>) >>
      [] id = "linkedin-daily" ->
           << ColumnGroup("Clicks", <<"Clicks (total)", "Clicks", "Clicks (organic)">>),
              ColumnGroup("Reactions",
                          <<"Reactions (total)", "Reactions", "Reactions (organic)">>),
              ColumnGroup("Comments",
                          <<"Comments (total)", "Comments", "Comments (organic)">>),
              ColumnGroup("Reposts",
                          <<"Reposts (total)", "Reposts", "Reposts (organic)",
                            "Shares">>) >>
      [] id = "linkedin-posts" ->
           << ColumnGroup("Views", <<"Views">>),
              ColumnGroup("Clicks", <<"Clicks">>),
              ColumnGroup("Likes", <<"Likes">>),
              ColumnGroup("Comments", <<"Comments">>),
              ColumnGroup("Reposts", <<"Reposts">>),
              ColumnGroup("Post title", <<"Post title">>),
              ColumnGroup("Post link", <<"Post link">>),
              ColumnGroup("Content Type", <<"Content Type", "Post type">>) >>

DatasetIds ==
    {"x-daily", "x-video-overview", "x-posts", "linkedin-daily", "linkedin-posts"}

----------------------------------------------------------------------------
(* File Provider. A file is what the file system and the csv-parse library  *)
(* (both outside the repository) make of a path: whether it exists, whether *)
(* reading it succeeds, whether its text parses as delimited data, and the  *)
(* rows of cells csv-parse returns for it (rows may differ in length).      *)

File(exists, readable, parses, rows) ==
    [exists |-> exists, readable |-> readable, parses |-> parses, rows |-> rows]

CsvFile(rows) == File(TRUE, TRUE, TRUE, rows)

NoFile == File(FALSE, FALSE, FALSE, <<>>)

\* a dataset's resolved raw files, in path order, and its bundled sample
Dataset(raw, sample) == [raw |-> raw, sample |-> sample]

\* a read that never falls back to the bundled sample
readCsvGroupRawOnly(rawFiles, sampleFile) ==
    LET Exists(file)     == file.exists
        existingRawPaths == SelectSeq(rawFiles, Exists)
    IN  IF Len(existingRawPaths) > 0
        THEN [texts    |-> existingRawPaths,
              source   |-> "raw",
              rejected |-> \E i \in DOMAIN existingRawPaths :
                               ~existingRawPaths[i].readable]
        ELSE [texts |-> <<>>, source |-> "missing", rejected |-> FALSE]

\* readCsvGroupWithFallback; rejected: a read failed, the promise rejects
readCsvGroupWithFallback(rawFiles, sampleFile) ==
    LET Exists(file)     == file.exists
        existingRawPaths == SelectSeq(rawFiles, Exists)
    IN  IF Len(existingRawPaths) > 0
        THEN [texts    |-> existingRawPaths,
              source   |-> "raw",
              rejected |-> \E i \in DOMAIN existingRawPaths :
                               ~existingRawPaths[i].readable]
        ELSE IF sampleFile.exists
        THEN [texts    |-> <<sampleFile>>,
              source   |-> "sample",
              rejected |-> ~sampleFile.readable]
        ELSE [texts |-> <<>>, source |-> "missing", rejected |-> FALSE]

----------------------------------------------------------------------------
(* Table Extractor *)

\* row.some(cell => String(cell).trim().toLowerCase() === target)
IsHeaderRow(row, target) ==
    \E i \in DOMAIN row : toLowerCase(trim(row[i])) = target

\* row.some(cell => String(cell).trim() !== "")
NotBlank(row) == \E i \in DOMAIN row : trim(row[i]) # ""

\* headers.reduce: the record of a row, its entries in the order the headers
\* first occur; a header that occurs twice keeps the later column's cell
RECURSIVE RowRecord(_, _, _, _)
RowRecord(acc, headers, row, index) ==
    IF index > Len(headers) THEN acc
    ELSE RowRecord(MapSet(acc, headers[index],
                          IF index <= Len(row) THEN row[index] ELSE ""),
                   headers, row, index + 1)

\* headerRow.map(cell => String(cell).trim())
RECURSIVE TrimCells(_)
TrimCells(row) ==
    IF row = <<>> THEN <<>> ELSE <<trim(Head(row))>> \o TrimCells(Tail(row))

\* the last row that holds the label, where the code takes the first
HeaderRowIndexLast(rawRows, target) ==
    CHOOSE i \in DOMAIN rawRows :
        /\ IsHeaderRow(rawRows[i], target)
        /\ \A j \in i + 1 .. Len(rawRows) : ~IsHeaderRow(rawRows[j], target)

\* rawRows.findIndex(row => row.some(...)), counted from 1
HeaderRowIndex(rawRows, target) ==
    CHOOSE i \in DOMAIN rawRows :
        /\ IsHeaderRow(rawRows[i], target)
        /\ \A j \in 1 .. i - 1 : ~IsHeaderRow(rawRows[j], target)

\* the rows below the header row that are not blank, as records
RECURSIVE RowRecords(_, _)
RowRecords(headers, body) ==
    IF body = <<>> THEN <<>>
    ELSE <<RowRecord(<<>>, headers, Head(body), 1)>>
         \o RowRecords(headers, Tail(body))

TableBelow(rawRows, headerRowIndex) ==
    [headers |-> TrimCells(rawRows[headerRowIndex]),
     rows    |-> RowRecords(TrimCells(rawRows[headerRowIndex]),
                            SelectSeq(SubSeq(rawRows, headerRowIndex + 1,
                                             Len(rawRows)),
                                      NotBlank))]

TableOf(rawRows, target) ==
    IF \A i \in DOMAIN rawRows : ~IsHeaderRow(rawRows[i], target)
    THEN [headers |-> <<>>, rows |-> <<>>]
    ELSE TableBelow(rawRows, HeaderRowIndex(rawRows, target))

\* parseCsvWithHeader
parseCsvWithHeader(csvText, headerLabel) ==
    IF ~csvText.parses THEN [headers |-> <<>>, rows |-> <<>>]
    ELSE TableOf(csvText.rows, toLowerCase(trim(headerLabel)))

\* parseLinkedInCsvRows
parseLinkedInCsvRows(csvText, headerLabel) ==
    parseCsvWithHeader(csvText, headerLabel)

\* Array.from(new Set(list)): the first occurrence of each element
RECURSIVE UniqueInto(_, _)
UniqueInto(seen, list) ==
    IF list = <<>> THEN seen
    ELSE IF \E i \in DOMAIN seen : seen[i] = Head(list)
    THEN UniqueInto(seen, Tail(list))
    ELSE UniqueInto(Append(seen, Head(list)), Tail(list))

Unique(list) == UniqueInto(<<>>, list)

\* the tables parsed from the texts of a source group
RECURSIVE ParsedTexts(_, _)
ParsedTexts(texts, headerLabel) ==
    IF texts = <<>> THEN <<>>
    ELSE <<parseCsvWithHeader(Head(texts), headerLabel)>>
         \o ParsedTexts(Tail(texts), headerLabel)

ParsedGroups(sourceGroup, headerLabel) ==
    ParsedTexts(sourceGroup.texts, headerLabel)

GroupHeaders(parsedGroups) ==
    Unique(FlatMap([i \in DOMAIN parsedGroups |-> parsedGroups[i].headers]))

GroupRows(parsedGroups) ==
    FlatMap([i \in DOMAIN parsedGroups |-> parsedGroups[i].rows])

\* what a loader has after its reads and parses: the source, whether a read
\* failed, the headers of all files and the rows of all files
CsvGroup(sourceGroup, parsedGroups) ==
    [source   |-> sourceGroup.source,
     rejected |-> sourceGroup.rejected,
     headers  |-> GroupHeaders(parsedGroups),
     rows     |-> GroupRows(parsedGroups)]

ParseGroup(sourceGroup, headerLabel) ==
    CsvGroup(sourceGroup, ParsedGroups(sourceGroup, headerLabel))

ReadDataset(dataset, headerLabel) ==
    ParseGroup(readCsvGroupWithFallback(dataset.raw, dataset.sample),
               headerLabel)

----------------------------------------------------------------------------
(* Record Mapper *)

\* list.map(k => k.toLowerCase())
RECURSIVE LowerAll(_)
LowerAll(list) ==
    IF list = <<>> THEN <<>>
    ELSE <<toLowerCase(Head(list))>> \o LowerAll(Tail(list))

\* Object.keys(row)
Keys(row) == [i \in DOMAIN row |-> row[i][1]]

\* the first candidate that is a lower-cased header
FirstWanted(lowerKeys, wanted) ==
    CHOOSE c \in DOMAIN wanted :
        /\ \E i \in DOMAIN lowerKeys : lowerKeys[i] = wanted[c]
        /\ \A b \in 1 .. c - 1 :
               \A i \in DOMAIN lowerKeys : lowerKeys[i] # wanted[b]

\* new Map(entries).get(key): of two entries of a key the Map keeps the later
LastKeyed(lowerKeys, key) ==
    CHOOSE i \in DOMAIN lowerKeys :
        /\ lowerKeys[i] = key
        /\ \A j \in i + 1 .. Len(lowerKeys) : lowerKeys[j] # key

\* pickField's case-insensitive fallback
pickLower(row, lowerKeys, wanted) ==
    IF \E c \in DOMAIN wanted :
           \E i \in DOMAIN lowerKeys : lowerKeys[i] = wanted[c]
    THEN row[LastKeyed(lowerKeys, wanted[FirstWanted(lowerKeys, wanted)])][2]
    ELSE ""

\* pickField: the first candidate that is a header of the row; else, by the
\* lower-cased headers, the first candidate that is one regardless of case;
\* else ""
pickField(row, candidates) ==
    IF \E c \in DOMAIN candidates : MapHas(row, candidates[c])
    THEN MapGet(row, candidates[CHOOSE c \in DOMAIN candidates :
                        /\ MapHas(row, candidates[c])
                        /\ \A b \in 1 .. c - 1 : ~MapHas(row, candidates[b])])
    ELSE pickLower(row, LowerAll(Keys(row)), LowerAll(candidates))

\* a mapping that ends at the first row without a record
RECURSIVE PresentUntilNull(_)
PresentUntilNull(list) ==
    IF list = <<>> \/ Head(list) = Null THEN <<>>
    ELSE <<Head(list)[1]>> \o PresentUntilNull(Tail(list))

\* SelectSeq for the results of a row mapping: the rows that gave a record
RECURSIVE Present(_)
Present(list) ==
    IF list = <<>> THEN <<>>
    ELSE (IF Head(list) = Null THEN <<>> ELSE <<Head(list)[1]>>)
         \o Present(Tail(list))

\* the views, watch time and completion rate of a row. completionRate is
\* held in hundredths (the cell's percentage), so that it stays an integer.
VideoEntry(row) ==
    [views          |-> toNumber(pickField(row, <<"Views">>)),
     watchTimeMs    |-> toNumber(pickField(row, <<"Watch Time (ms)">>)),
     completionRate |-> toNumber(pickField(row, <<"Completion Rate">>))]

\* a row replaces the day's kept row on more views, or on as many and a
\* longer watch time
VideoReplaces(entry, existing) ==
    \/ entry.views > existing.views
    \/ /\ entry.views = existing.views
       /\ entry.watchTimeMs > existing.watchTimeMs

\* loadXVideoOverviewByDate, the forEach over the rows; date is that of the
\* first row
RECURSIVE VideoAll(_, _, _)
RECURSIVE VideoNext(_, _, _, _)
VideoNext(videoMap, date, rows, offset) ==
    IF /\ date # Null
       /\ \/ ~MapHas(videoMap, toDayKey(date[1]))
          \/ VideoReplaces(VideoEntry(Head(rows)),
                           MapGet(videoMap, toDayKey(date[1])))
    THEN VideoAll(MapSet(videoMap, toDayKey(date[1]), VideoEntry(Head(rows))),
                  Tail(rows), offset)
    ELSE VideoAll(videoMap, Tail(rows), offset)

VideoAll(videoMap, rows, offset) ==
    IF rows = <<>> THEN videoMap
    ELSE VideoNext(videoMap,
                   parseXDate(pickField(Head(rows), <<"Date">>), offset),
                   rows, offset)

\* loadXVideoOverviewByDate, after its reads and parses
XVideoOverviewOf(group, offset) ==
    [rejected   |-> group.rejected,
     videoMap   |-> VideoAll(<<>>, group.rows, offset),
     validation |-> buildCsvValidation("x-video-overview", group.source,
                        Len(group.rows), group.headers,
                        RequiredGroups("x-video-overview"),
                        OptionalGroups("x-video-overview"))]

\* loadXVideoOverviewByDate
loadXVideoOverviewByDate(dataset, offset) ==
    XVideoOverviewOf(ReadDataset(dataset, "Date"), offset)

\* videoByDate.get(toDayKey(date)), a day without a video row as the zeros
\* that `video?.views ?? 0` and its like put in its place
VideoOf(videoMap, key) ==
    IF MapHas(videoMap, key) THEN MapGet(videoMap, key)
    ELSE [views |-> 0, watchTimeMs |-> 0, completionRate |-> 0]

\* the DailyMetric of a row with a date.
\* videoCompletionRateSum is in hundredths, as completionRate is.
XDailyOn(row, date, video, baseVideoViews) ==
    [source   |-> "x",
     date     |-> date,
     views    |-> toNumber(pickField(row, <<"Impressions">>)),
     likes    |-> toNumber(pickField(row, <<"Likes">>)),
     comments |-> toNumber(pickField(row, <<"Replies">>)),
     reposts  |-> toNumber(pickField(row, <<"Reposts", "Retweets">>))
                  + toNumber(pickField(row, <<"Shares">>)),
     clicks   |-> 0,
     shares   |-> toNumber(pickField(row, <<"Shares">>)),
     bookmarks     |-> toNumber(pickField(row, <<"Bookmarks">>)),
     profileVisits |-> toNumber(pickField(row, <<"Profile visits">>)),
     engagements   |-> toNumber(pickField(row, <<"Engagements">>)),
     videoViews    |-> IF baseVideoViews # 0 THEN baseVideoViews
                       ELSE video.views,
     videoWatchViews  |-> video.views,
     videoWatchTimeMs |-> video.watchTimeMs,
     videoCompletionRateSum |-> video.completionRate * video.views,
     posts      |-> toNumber(pickField(row, <<"Create Post">>)),
     newFollows |-> toNumber(pickField(row, <<"New follows">>)),
     unfollows  |-> toNumber(pickField(row, <<"Unfollows">>))]

XDailyDated(row, videoMap, date) ==
    IF date = Null THEN Null
    ELSE Some(XDailyOn(row, date[1], VideoOf(videoMap, toDayKey(date[1])),
                       toNumber(pickField(row, <<"Video views">>))))

\* loadXDailyMetrics, the mapping of a row: null, or its DailyMetric
XDailyMetric(row, videoMap, offset) ==
    XDailyDated(row, videoMap, parseXDate(pickField(row, <<"Date">>), offset))

\* loadXDailyMetrics, rows.map(...).filter(Boolean): the records to merge
XDailyRecords(rows, videoMap, offset) ==
    Present([i \in DOMAIN rows |-> XDailyMetric(rows[i], videoMap, offset)])

\* loadXDailyMetrics, after its reads and parses
XDailyOf(video, group, offset) ==
    [rejected   |-> group.rejected,
     metrics    |-> mergeDailyMetrics(
                        XDailyRecords(group.rows, video.videoMap, offset)),
     validation |-> buildCsvValidation("x-daily", group.source,
                        Len(group.rows), group.headers,
                        RequiredGroups("x-daily"), OptionalGroups("x-daily")),
     videoValidation |-> video.validation]

\* loadXDailyMetrics, after its await of loadXVideoOverviewByDate
loadXDailyMetrics(video, dataset, offset) ==
    XDailyOf(video, ReadDataset(dataset, "Date"), offset)

\* postsByDate.get(toDayKey(date)) ?? 0
\* the count read from a map that holds no post yet
PostsOnEmptyMap(postsByDate, key) == 0

PostsOn(postsByDate, key) ==
    IF MapHas(postsByDate, key) THEN MapGet(postsByDate, key) ELSE 0

LinkedInDailyDated(row, postsByDate, date) ==
    IF date = Null THEN Null
    ELSE Some([source   |-> "linkedin",
               date     |-> date[1],
               views    |-> toNumber(pickField(row,
                               <<"Impressions (total)", "Impressions",
                                 "Impressions (organic)">>)),
               clicks   |-> toNumber(pickField(row,
                               <<"Clicks (total)", "Clicks",
                                 "Clicks (organic)">>)),
               shares        |-> 0,
               bookmarks     |-> 0,
               profileVisits |-> 0,
               likes    |-> toNumber(pickField(row,
                               <<"Reactions (total)", "Reactions",
                                 "Reactions (organic)">>)),
               comments |-> toNumber(pickField(row,
                               <<"Comments (total)", "Comments",
                                 "Comments (organic)">>)),
               reposts  |-> toNumber(pickField(row,
                               <<"Reposts (total)", "Reposts",
                                 "Reposts (organic)", "Shares">>)),
               engagements            |-> 0,
               videoViews             |-> 0,
               videoWatchViews        |-> 0,
               videoWatchTimeMs       |-> 0,
               videoCompletionRateSum |-> 0,
               posts      |-> PostsOn(postsByDate, toDayKey(date[1])),
               newFollows |-> 0,
               unfollows  |-> 0])

\* loadLinkedInDailyMetrics, the mapping of a row: null, or its DailyMetric
LinkedInDailyMetric(row, postsByDate, offset) ==
    LinkedInDailyDated(row, postsByDate,
        parseLinkedInDate(pickField(row, <<"Date">>), offset))

\* loadLinkedInDailyMetrics, rows.map(...).filter(Boolean)
LinkedInDailyRecords(rows, postsByDate, offset) ==
    Present([i \in DOMAIN rows |->
                LinkedInDailyMetric(rows[i], postsByDate, offset)])

\* loadLinkedInDailyMetrics, after its reads and parses
LinkedInDailyOf(postsByDate, group, offset) ==
    [rejected   |-> group.rejected,
     metrics    |-> mergeDailyMetrics(
                        LinkedInDailyRecords(group.rows, postsByDate, offset)),
     validation |-> buildCsvValidation("linkedin-daily", group.source,
                        Len(group.rows), group.headers,
                        RequiredGroups("linkedin-daily"),
                        OptionalGroups("linkedin-daily"))]

\* loadLinkedInDailyMetrics
loadLinkedInDailyMetrics(postsByDate, dataset, offset) ==
    LinkedInDailyOf(postsByDate, ReadDataset(dataset, "Date"), offset)

----------------------------------------------------------------------------
(* Post Ranking Engine *)

\* str.replace(/pattern/g, by) for a literal pattern
RECURSIVE ReplaceAll(_, _, _)
ReplaceAll(str, pattern, by) ==
    IF Len(str) < Len(pattern) THEN str
    ELSE IF SubSeq(str, 1, Len(pattern)) = pattern
    THEN by \o ReplaceAll(SubSeq(str, Len(pattern) + 1, Len(str)), pattern, by)
    ELSE SubSeq(str, 1, 1) \o ReplaceAll(Tail(str), pattern, by)

\* decodeHtmlEntities
decodeHtmlEntities(value) ==
    ReplaceAll(ReplaceAll(ReplaceAll(ReplaceAll(ReplaceAll(value,
        "&gt;", ">"), "&lt;", "<"), "&amp;", "&"), "&quot;", "\""), "&#39;", "'")

\* title.replace(/\s+/g, " "): a run of blanks becomes one blank
RECURSIVE CollapseBlanks(_)
CollapseBlanks(str) ==
    IF str = "" THEN ""
    ELSE IF Head(str) = " " THEN " " \o CollapseBlanks(TrimStart(str))
    ELSE SubSeq(str, 1, 1) \o CollapseBlanks(Tail(str))

\* str.slice(0, n)
SliceStr(str, n) == SubSeq(str, 1, IF Len(str) < n THEN Len(str) ELSE n)

\* sanitizeTitle
sanitizeTitle(title) == SliceStr(CollapseBlanks(title), 140)

\* a rate that is computed where it can be, and read from the cell otherwise
EngagementRateComputedFirst(cell, impressions, likes, comments, reposts) ==
    IF calculateEngagementRate(impressions, likes, comments, reposts) # Null
    THEN calculateEngagementRate(impressions, likes, comments, reposts)
    ELSE parseRate(cell)

\* parseRate(cell) ?? calculateEngagementRate(...)
EngagementRate(cell, impressions, likes, comments, reposts) ==
    IF parseRate(cell) # Null THEN parseRate(cell)
    ELSE calculateEngagementRate(impressions, likes, comments, reposts)

\* the XPostSummary of a row with a text or a link
XPostOf(row, text, link, offset, impressions, likes, replies, reposts) ==
    IF text = "" /\ link = "" THEN Null
    ELSE Some([text        |-> sanitizeTitle(text),
               link        |-> link,
               createdAt   |-> parseXPostDate(pickField(row,
                                   <<"time", "Time", "Created at", "Date">>),
                                   offset),
               impressions |-> impressions,
               likes       |-> likes,
               replies     |-> replies,
               reposts     |-> reposts,
               engagements |-> toNumber(pickField(row, <<"Engagements">>)),
               engagementRate |->
                   EngagementRate(pickField(row, <<"Engagement rate">>),
                                  impressions, likes, replies, reposts)])

\* loadXPostsData, the mapping of a row: null, or its XPostSummary
XPost(row, offset) ==
    XPostOf(row,
            decodeHtmlEntities(trim(pickField(row,
                <<"Tweet text", "Text", "Post text", "Tweet", "Post">>))),
            trim(pickField(row,
                <<"Post Link", "Tweet permalink", "URL", "Tweet URL",
                  "Permalink">>)),
            offset,
            toNumber(pickField(row, <<"Impressions">>)),
            toNumber(pickField(row, <<"Likes">>)),
            toNumber(pickField(row, <<"Replies">>)),
            toNumber(pickField(row,
                <<"Reposts", "Retweets", "Retweets (organic)">>)))

\* loadXPostsData, rows.map(...).filter(Boolean)
XPosts(rows, offset) ==
    Present([i \in DOMAIN rows |-> XPost(rows[i], offset)])

\* the identity key of an X post
XPostKey(post) ==
    IF post.link # "" THEN post.link
    ELSE post.text \o "-"
         \o (IF post.createdAt = Null THEN ""
             ELSE toISOString(post.createdAt[1]))

\* whether a row replaces the kept post of its key
XReplaces(post, existing) == post.impressions > existing.impressions

\* the dedupe of loadXPostsData; key is that of the first post
RECURSIVE XDedupe(_, _)
RECURSIVE XDedupeNext(_, _, _)
XDedupeNext(deduped, key, posts) ==
    IF ~MapHas(deduped, key) \/ XReplaces(Head(posts), MapGet(deduped, key))
    THEN XDedupe(MapSet(deduped, key, Head(posts)), Tail(posts))
    ELSE XDedupe(deduped, Tail(posts))

XDedupe(deduped, posts) ==
    IF posts = <<>> THEN deduped
    ELSE XDedupeNext(deduped, XPostKey(Head(posts)), posts)

\* -impressions: the order of sort((a, b) => b.impressions - a.impressions)
ImpressionsDescending(post) == 0 - post.impressions

\* list.slice(0, n)
Slice(list, n) == SubSeq(list, 1, IF Len(list) < n THEN Len(list) ELSE n)

\* loadXPostsData, after its reads, parses and dedupe
XPostsOf(group, deduped) ==
    [rejected   |-> group.rejected,
     deduped    |-> deduped,
     topPosts   |-> Slice(SortBy(deduped, ImpressionsDescending), 5),
     validation |-> buildCsvValidation("x-posts", group.source,
                        Len(group.rows), group.headers,
                        RequiredGroups("x-posts"), OptionalGroups("x-posts"))]

XPostsRead(group, offset) ==
    XPostsOf(group, MapValues(XDedupe(<<>>, XPosts(group.rows, offset))))

\* loadXPostsData
loadXPostsData(dataset, offset) ==
    XPostsRead(ReadDataset(dataset, "Impressions"), offset)

\* the record of a row with a creation date
LinkedInPostOf(row, dateValue, createdAt, impressions, likes, comments,
               reposts) ==
    IF createdAt = Null THEN Null
    ELSE Some([title       |-> sanitizeTitle(trim(pickField(row,
                                   <<"Post title">>))),
               link        |-> trim(pickField(row, <<"Post link">>)),
               createdAt   |-> createdAt[1],
               impressions |-> impressions,
               views       |-> toNumber(pickField(row, <<"Views">>)),
               clicks      |-> toNumber(pickField(row, <<"Clicks">>)),
               likes       |-> likes,
               comments    |-> comments,
               reposts     |-> reposts,
               engagementRate |->
                   EngagementRate(pickField(row,
                       <<"Engagement rate", "Engagement rate (total)">>),
                       impressions, likes, comments, reposts),
               contentType |-> trim(pickField(row,
                                   <<"Content Type", "Post type">>)),
               hasTime     |-> Includes(trim(dateValue), ":")])

LinkedInPostDated(row, dateValue, offset) ==
    LinkedInPostOf(row, dateValue, parseLinkedInDateTime(dateValue, offset),
                   toNumber(pickField(row, <<"Impressions">>)),
                   toNumber(pickField(row, <<"Likes">>)),
                   toNumber(pickField(row, <<"Comments">>)),
                   toNumber(pickField(row, <<"Reposts">>)))

\* loadLinkedInPostsData, the mapping of a row: null, or its record
LinkedInPost(row, offset) ==
    LinkedInPostDated(row, pickField(row, <<"Created date", "Created Date">>),
                      offset)

\* loadLinkedInPostsData, rawPosts
LinkedInRawPosts(rows, offset) ==
    Present([i \in DOMAIN rows |-> LinkedInPost(rows[i], offset)])

\* the identity key of a LinkedIn post
LinkedInPostKey(post) ==
    IF post.link # "" THEN post.link
    ELSE post.title \o "-" \o toISOString(post.createdAt)

\* a later row replaces the kept post on more impressions only
LinkedInReplacesNoTieBreak(post, existing) ==
    post.impressions > existing.impressions

\* whether a row replaces the kept post of its key
LinkedInReplaces(post, existing) ==
    \/ post.impressions > existing.impressions
    \/ /\ post.impressions = existing.impressions
       /\ post.hasTime
       /\ ~existing.hasTime

\* the dedupe of loadLinkedInPostsData; key is that of the first post
RECURSIVE LinkedInDedupe(_, _)
RECURSIVE LinkedInDedupeNext(_, _, _)
\* a dedupe that keeps every row
LinkedInDedupeKeepsAll(dedupedPosts, key, rawPosts) ==
    LinkedInDedupe(Append(dedupedPosts, <<key, Head(rawPosts)>>), Tail(rawPosts))

\* rawPosts.forEach: the post is set where its key has none or it replaces
LinkedInDedupeNext(dedupedPosts, key, rawPosts) ==
    IF \/ ~MapHas(dedupedPosts, key)
       \/ LinkedInReplaces(Head(rawPosts), MapGet(dedupedPosts, key))
    THEN LinkedInDedupe(MapSet(dedupedPosts, key, Head(rawPosts)),
                        Tail(rawPosts))
    ELSE LinkedInDedupe(dedupedPosts, Tail(rawPosts))

LinkedInDedupe(dedupedPosts, rawPosts) ==
    IF rawPosts = <<>> THEN dedupedPosts
    ELSE LinkedInDedupeNext(dedupedPosts, LinkedInPostKey(Head(rawPosts)),
                            rawPosts)

\* a map that marks a day instead of counting its posts
CountPostOnce(postsByDate, key) == MapSet(postsByDate, key, 1)

\* postsByDate.set(key, (postsByDate.get(key) ?? 0) + 1)
CountPost(postsByDate, key) ==
    MapSet(postsByDate, key, PostsOn(postsByDate, key) + 1)

\* postsByDate over the unique posts
RECURSIVE PostsByDate(_, _)
PostsByDate(postsByDate, uniquePosts) ==
    IF uniquePosts = <<>> THEN postsByDate
    ELSE PostsByDate(CountPost(postsByDate,
                               toDayKey(Head(uniquePosts).createdAt)),
                     Tail(uniquePosts))

\* -views: the tie-break of the top posts' sort
ViewsDescending(post) == 0 - post.views

\* ({ hasTime, ...summary }) => summary
Summary(post) == [k \in DOMAIN post \ {"hasTime"} |-> post[k]]

\* uniquePosts.map(({ hasTime, ...summary }) => summary)
RECURSIVE Summaries(_)
Summaries(uniquePosts) ==
    IF uniquePosts = <<>> THEN <<>>
    ELSE <<Summary(Head(uniquePosts))>> \o Summaries(Tail(uniquePosts))

\* post.title || post.link
HasTitleOrLink(post) == post.title # "" \/ post.link # ""

\* post.contentType || "Unknown"
ContentTypeOf(post) ==
    IF post.contentType = "" THEN "Unknown" ELSE post.contentType

\* the summary a content type starts from
NewContentType(contentType) ==
    [type |-> contentType, posts |-> 0, impressions |-> 0, views |-> 0,
     engagements |-> 0]

\* a content type's summary that adds the likes alone to its engagements
AddToContentTypeLikesOnly(current, post) ==
    [type        |-> current.type,
     posts       |-> current.posts + 1,
     impressions |-> current.impressions + post.impressions,
     views       |-> current.views + post.views,
     engagements |-> current.engagements + post.likes]

\* current.posts += 1; current.impressions += post.impressions; ...
AddToContentType(current, post) ==
    [type        |-> current.type,
     posts       |-> current.posts + 1,
     impressions |-> current.impressions + post.impressions,
     views       |-> current.views + post.views,
     engagements |-> current.engagements + post.likes + post.comments
                         + post.reposts]

\* contentTypeMap.get(contentType) ?? { type: contentType, posts: 0, ... }
CurrentContentType(contentTypeMap, contentType) ==
    IF MapHas(contentTypeMap, contentType)
    THEN MapGet(contentTypeMap, contentType)
    ELSE NewContentType(contentType)

\* the content-type part of the body of uniquePosts.forEach
ContentTypeNext(contentTypeMap, contentType, post) ==
    MapSet(contentTypeMap, contentType,
           AddToContentType(CurrentContentType(contentTypeMap, contentType),
                            post))

RECURSIVE ContentTypeMap(_, _, _)
ContentTypeMap(contentTypeMap, uniquePosts, i) ==
    IF i > Len(uniquePosts) THEN contentTypeMap
    ELSE ContentTypeMap(ContentTypeNext(contentTypeMap,
                                        ContentTypeOf(uniquePosts[i]),
                                        uniquePosts[i]),
                        uniquePosts, i + 1)

\* Array.from(contentTypeMap.values()).sort(...).slice(0, 6)
ContentTypes(uniquePosts) ==
    Slice(SortBy(MapValues(ContentTypeMap(<<>>, uniquePosts, 1)),
                 ImpressionsDescending), 6)

\* a ratio <<numerator, denominator>> with its denominator made positive
PositiveDenominator(ratio) ==
    IF ratio[2] < 0 THEN <<0 - ratio[1], 0 - ratio[2]>> ELSE ratio

\* rate ?? 0
RateOrZero(rate) == IF rate = Null THEN <<0, 1>> ELSE PositiveDenominator(rate)

\* a <= b for ratios of positive denominator
RatioLeq(a, b) == a[1] * b[2] <= b[1] * a[2]

\* sort((a, b) => (b.engagementRate ?? 0) - (a.engagementRate ?? 0)), stable:
\* an item goes after the items whose rate is not smaller
InsertByRate(sorted, item) ==
    InsertAt(sorted, item,
             Cardinality({i \in DOMAIN sorted :
                 RatioLeq(RateOrZero(item.engagementRate),
                          RateOrZero(sorted[i].engagementRate))}))

RECURSIVE SortByRateInto(_, _)
SortByRateInto(sorted, list) ==
    IF Len(sorted) = Len(list) THEN sorted
    ELSE SortByRateInto(InsertByRate(sorted, list[Len(sorted) + 1]), list)

SortByRate(list) == SortByRateInto(<<>>, list)

\* post.hasTime ? post.createdAt.getUTCHours() : null
HourOf(post) ==
    IF post.hasTime THEN Some(getUTCHours(post.createdAt)) ELSE Null

DayNameOf(post) == dayNames[getUTCDay(post.createdAt) + 1]

\* a key that leaves the hour out
SlotKeyDayOnly(dayName, hour) == dayName

\* hour === null ? dayName : `${dayName}-${hour}`
SlotKey(dayName, hour) ==
    IF hour = Null THEN dayName ELSE dayName \o "-" \o ToString(hour[1])

\* hour === null ? dayName : `${dayName} ${String(hour).padStart(2, "0")}:00`
SlotLabel(dayName, hour) ==
    IF hour = Null THEN dayName
    ELSE dayName \o " " \o PadStart(ToString(hour[1]), 2) \o ":00"

\* the slot a key starts from
NewSlot(dayName, hour) ==
    [label |-> SlotLabel(dayName, hour), day |-> dayName, hour |-> hour,
     posts |-> 0, impressions |-> 0, engagements |-> 0,
     engagementRate |-> Null]

\* slot.impressions ? slot.engagements / slot.impressions : null
SlotRate(impressions, engagements) ==
    IF impressions = 0 THEN Null ELSE <<engagements, impressions>>

SlotOf(slot, impressions, engagements) ==
    [label |-> slot.label, day |-> slot.day, hour |-> slot.hour,
     posts |-> slot.posts + 1, impressions |-> impressions,
     engagements |-> engagements,
     engagementRate |-> SlotRate(impressions, engagements)]

\* slot.posts += 1; slot.impressions += ...; slot.engagements += ...;
\* slot.engagementRate = ...
AddToSlot(slot, post) ==
    SlotOf(slot, slot.impressions + post.impressions,
           slot.engagements + post.likes + post.comments + post.reposts)

\* timeSlotMap.get(slotKey) ?? { label, day, hour, posts: 0, ... }
CurrentSlot(timeSlotMap, dayName, hour) ==
    IF MapHas(timeSlotMap, SlotKey(dayName, hour))
    THEN MapGet(timeSlotMap, SlotKey(dayName, hour))
    ELSE NewSlot(dayName, hour)

\* the time-slot part of the body of uniquePosts.forEach
TimeSlotNext(timeSlotMap, dayName, hour, post) ==
    MapSet(timeSlotMap, SlotKey(dayName, hour),
           AddToSlot(CurrentSlot(timeSlotMap, dayName, hour), post))

RECURSIVE TimeSlotMap(_, _, _)
TimeSlotMap(timeSlotMap, uniquePosts, i) ==
    IF i > Len(uniquePosts) THEN timeSlotMap
    ELSE TimeSlotMap(TimeSlotNext(timeSlotMap, DayNameOf(uniquePosts[i]),
                                  HourOf(uniquePosts[i]), uniquePosts[i]),
                     uniquePosts, i + 1)

HasPosts(slot) == slot.posts > 0

\* Array.from(timeSlotMap.values()).filter(...).sort(...).slice(0, 5)
BestTimes(uniquePosts) ==
    Slice(SortByRate(SelectSeq(MapValues(TimeSlotMap(<<>>, uniquePosts, 1)),
                               HasPosts)), 5)

RateKnown(post) == post.engagementRate # Null

\* uniqueSummaries.filter(...).sort(...).slice(0, 5)
TopPostsByRate(uniqueSummaries) ==
    Slice(SortByRate(SelectSeq(uniqueSummaries, RateKnown)), 5)

\* loadLinkedInPostsData, after its reads, parses and dedupe
LinkedInPostsOf(group, uniquePosts) ==
    [rejected    |-> group.rejected,
     uniquePosts |-> uniquePosts,
     postsByDate |-> PostsByDate(<<>>, uniquePosts),
     topPosts    |-> Slice(SortBy(SortBy(SelectSeq(Summaries(uniquePosts),
                                                   HasTitleOrLink),
                                         ViewsDescending),
                                  ImpressionsDescending), 5),
     topPostsByRate |-> TopPostsByRate(Summaries(uniquePosts)),
     contentTypes |-> ContentTypes(uniquePosts),
     bestTimes   |-> BestTimes(uniquePosts),
     validation  |-> buildCsvValidation("linkedin-posts", group.source,
                         Len(group.rows), group.headers,
                         RequiredGroups("linkedin-posts"),
                         OptionalGroups("linkedin-posts"))]

LinkedInPostsRead(group, offset) ==
    LinkedInPostsOf(group,
        MapValues(LinkedInDedupe(<<>>, LinkedInRawPosts(group.rows, offset))))

\* loadLinkedInPostsData
loadLinkedInPostsData(dataset, offset) ==
    LinkedInPostsRead(ReadDataset(dataset, "Created date"), offset)

----------------------------------------------------------------------------
(* Inputs of the Merge Engine / Aggregator run: the daily records of up to   *)
(* MaxFiles export files, concatenated in file order. A file holds one       *)
(* record per day for a run of consecutive days, as a monthly export does;   *)
(* files may overlap, leave gaps and straddle a month's end.                 *)

\* <<first day, number of days>> of a file
FileSpans ==
    { <<DateUTC(2023, 0, 27, 0, 0), 4>>, <<DateUTC(2023, 0, 27, 0, 0), 5>>,
      <<DateUTC(2023, 0, 30, 0, 0), 4>>, <<DateUTC(2023, 1, 1, 0, 0), 5>>,
      <<DateUTC(2023, 1, 26, 0, 0), 4>> }

\* counters of a day, in METRIC_KEYS order: an export, a revised export of the
\* same days (some counters higher, some lower), and a day without views
SampleCounters ==
    << <<100, 10, 5, 5, 3, 2, 1, 4, 20, 7, 6, 9, 3, 1, 2, 1>>,
       << 80, 12, 5, 7, 0, 2, 3, 4, 25, 0, 6, 11, 2, 2, 0, 1>>,
       <<  0,  1, 0, 2, 1, 0, 0, 9,  3, 0, 0, 0, 0, 0, 1, 0>> >>

ExportFile(source, start, length, profile) ==
    [i \in 1..length |->
        DailyMetric(source, start + (i - 1) * dayMs, SampleCounters[profile])]

\* the files of platform X, and a few of LinkedIn's (a list that mixes the
\* platforms has records of both on the same day)
ExportFiles ==
    { ExportFile("x", span[1], span[2], profile) :
        span \in FileSpans, profile \in DOMAIN SampleCounters }
    \cup
    { ExportFile("linkedin", start, 4, profile) :
        start \in {DateUTC(2023, 0, 30, 0, 0), DateUTC(2023, 1, 1, 0, 0)},
        profile \in {1, 2} }

MergeInputs == { FlatMap(files) : files \in SeqUpTo(ExportFiles, MaxFiles) }

\* the label getDashboardData passes to buildDataQuality with a series
QualityLabel(list) ==
    IF \A i \in DOMAIN list : list[i].source = "x" THEN "X"
    ELSE IF \A i \in DOMAIN list : list[i].source = "linkedin" THEN "LinkedIn"
    ELSE "Combined"

-----
(* The Merge Engine / Aggregator run: mergeDailyMetrics on the records of a  *)
(* platform, a second merge of its result, then buildPlatformData,           *)
(* buildDataQuality and calculateMomGrowth on the merged series.             *)

NotYet == <<>>

\* no function of the Field Normalizer is being called
NoCall == [fn |-> "none"]

\* getDashboardData has not been called
PipelineIdle ==
    /\ provider = <<>>
    /\ hostOffset = 0
    /\ pc = "idle"
    /\ xpc = "idle"
    /\ lpc = "idle"
    /\ linkedInPostsData = NotYet
    /\ xPostsData = NotYet
    /\ xVideo = NotYet
    /\ xDailyResult = NotYet
    /\ linkedInDailyResult = NotYet
    /\ dashboard = NotYet

InitMerge ==
    /\ phase = "input"
    /\ metrics \in MergeInputs
    /\ daily = NotYet
    /\ remerged = NotYet
    /\ monthly = NotYet
    /\ totals = NotYet
    /\ quality = NotYet
    /\ momOut = NotYet
    /\ call = NoCall
    /\ result = NotYet
    /\ PipelineIdle

Merge ==
    /\ phase = "input"
    /\ daily' = mergeDailyMetrics(metrics)
    /\ phase' = "merged"
    /\ UNCHANGED <<metrics, remerged, monthly, totals, quality, momOut>>
    /\ UNCHANGED <<callVars, pipeVars>>

Remerge ==
    /\ phase = "merged"
    /\ remerged' = mergeDailyMetrics(daily)
    /\ phase' = "remerged"
    /\ UNCHANGED <<metrics, daily, monthly, totals, quality, momOut>>
    /\ UNCHANGED <<callVars, pipeVars>>

BuildPlatformData ==
    /\ phase = "remerged"
    /\ monthly' = aggregateByMonth(daily)
    /\ totals' = summarizeTotals(monthly')
    /\ phase' = "aggregated"
    /\ UNCHANGED <<metrics, daily, remerged, quality, momOut>>
    /\ UNCHANGED <<callVars, pipeVars>>

BuildDataQuality ==
    /\ phase = "aggregated"
    /\ quality' = buildDataQuality(QualityLabel(daily), daily)
    /\ phase' = "qualified"
    /\ UNCHANGED <<metrics, daily, remerged, monthly, totals, momOut>>
    /\ UNCHANGED <<callVars, pipeVars>>

CalculateMomGrowth ==
    /\ phase = "qualified"
    /\ momOut' = calculateMomGrowth(monthly)
    /\ phase' = "done"
    /\ UNCHANGED <<metrics, daily, remerged, monthly, totals, quality>>
    /\ UNCHANGED <<callVars, pipeVars>>

NextMerge ==
    \/ Merge
    \/ Remerge
    \/ BuildPlatformData
    \/ BuildDataQuality
    \/ CalculateMomGrowth

SpecMerge == InitMerge /\ [][NextMerge]_vars

----------------------------------------------------------------------------
(* Objects. The functions of the Merge Engine and the Aggregator once more,  *)
(* on a store of objects held by reference, as JavaScript holds them: a      *)
(* record passed in an array is the caller's object, a write through a       *)
(* reference changes it for every holder, and only a spread, a literal or    *)
(* Array.from makes a new one. The store has the records by reference and    *)
(* the arrays of references; the array a function is called with is array 1. *)

StoreOf(list) ==
    [objects |-> list, arrays |-> << [i \in DOMAIN list |-> i] >>]

\* an object literal: a new object
NewObject(store, object) ==
    [store |-> [objects |-> Append(store.objects, object),
                arrays  |-> store.arrays],
     ref   |-> Len(store.objects) + 1]

\* the object itself, where the code makes a copy
SameObject(store, ref) == [store |-> store, ref |-> ref]

\* { ...object }: a new object with the fields of the old
SpreadObject(store, ref) == NewObject(store, store.objects[ref])

\* object.field = value, object.field += value
WriteObject(store, ref, object) ==
    [objects |-> [store.objects EXCEPT ![ref] = object],
     arrays  |-> store.arrays]

\* [...array], Array.from(map.values()), array.filter(...): a new array
NewArray(store, refs) ==
    [store |-> [objects |-> store.objects,
                arrays  |-> Append(store.arrays, refs)],
     array |-> Len(store.arrays) + 1]

\* array.sort(compare): in place
SortArray(store, array, Key(_)) ==
    [objects |-> store.objects,
     arrays  |-> [store.arrays EXCEPT
                     ![array] = SortBy(@, LAMBDA ref : Key(store.objects[ref]))]]

\* the records an array refers to
Deref(store, array) ==
    [i \in DOMAIN store.arrays[array] |-> store.objects[store.arrays[array][i]]]

\* what a function returns: the store it leaves and the reference it returns
Returns(store, value) == [store |-> store, value |-> value]

\* mergeDailyMetrics: merged[field] = Math.max(existing[field], metric[field])
MergedInStore(copy, existing, metric) ==
    WriteObject(copy.store, copy.ref,
                MergeFields(copy.store.objects[copy.ref],
                            copy.store.objects[existing],
                            copy.store.objects[metric], METRIC_KEYS))

\* const merged = { ...existing }; ...; byDay.set(key, merged)
MergeExistingInStore(st, key, copy, metric) ==
    [store |-> MergedInStore(copy, MapGet(st.byDay, key), metric),
     byDay |-> MapSet(st.byDay, key, copy.ref)]

\* the body of metrics.forEach
MergeStepInStore(st, key, metric) ==
    IF ~MapHas(st.byDay, key)
    THEN [store |-> st.store, byDay |-> MapSet(st.byDay, key, metric)]
    ELSE MergeExistingInStore(st, key,
                              SpreadObject(st.store, MapGet(st.byDay, key)),
                              metric)

RECURSIVE MergeInStore(_, _, _)
MergeInStore(st, refs, i) ==
    IF i > Len(refs) THEN st
    ELSE MergeInStore(MergeStepInStore(st, MergeKey(st.store.objects[refs[i]]),
                                       refs[i]),
                      refs, i + 1)

SortedValuesInStore(fresh, Key(_)) ==
    Returns(SortArray(fresh.store, fresh.array, Key), fresh.array)

MergedValuesInStore(st) ==
    SortedValuesInStore(NewArray(st.store, MapValues(st.byDay)), GetTime)

\* mergeDailyMetrics(metrics), metrics the array of the store
mergeDailyMetricsInStore(store, array) ==
    MergedValuesInStore(MergeInStore([store |-> store, byDay |-> <<>>],
                                     store.arrays[array], 1))

\* buckets.set(monthKey, { ... })
BucketNewInStore(st, monthKey, bucket) ==
    [store |-> bucket.store, buckets |-> MapSet(st.buckets, monthKey, bucket.ref)]

\* the body of daily.forEach in aggregateByMonth
BucketStepInStore(st, monthKey, metric) ==
    IF ~MapHas(st.buckets, monthKey)
    THEN BucketNewInStore(st, monthKey,
                          NewObject(st.store, NewBucket(monthKey, metric)))
    ELSE [store   |-> WriteObject(st.store, MapGet(st.buckets, monthKey),
                          AddToBucket(st.store.objects[MapGet(st.buckets, monthKey)],
                                      metric)),
          buckets |-> st.buckets]

RECURSIVE BucketInStore(_, _, _)
BucketInStore(st, refs, i) ==
    IF i > Len(refs) THEN st
    ELSE BucketInStore(
             BucketStepInStore(st, toMonthKey(st.store.objects[refs[i]].date),
                               st.store.objects[refs[i]]),
             refs, i + 1)

BucketValuesInStore(st) ==
    SortedValuesInStore(NewArray(st.store, MapValues(st.buckets)), MonthOrder)

\* aggregateByMonth(daily)
aggregateByMonthInStore(store, array) ==
    BucketValuesInStore(BucketInStore([store |-> store, buckets |-> <<>>],
                                      store.arrays[array], 1))

RECURSIVE ReduceTotalsInStore(_, _, _, _)
ReduceTotalsInStore(store, acc, refs, i) ==
    IF i > Len(refs) THEN [store |-> store, ref |-> acc]
    ELSE ReduceTotalsInStore(
             WriteObject(store, acc,
                         AddToTotals(store.objects[acc], store.objects[refs[i]])),
             acc, refs, i + 1)

TotalsInStore(acc, refs) == ReduceTotalsInStore(acc.store, acc.ref, refs, 1)

\* summarizeTotals(monthly)
summarizeTotalsInStore(store, array) ==
    TotalsInStore(NewObject(store, TotalsZero), store.arrays[array])

CoverageInStore(sorted) ==
    NewObject(sorted.store, CoverageOf(Deref(sorted.store, sorted.value)))

\* buildCoverage(daily); ref: the Coverage it returns
buildCoverageInStore(store, array) ==
    IF Len(store.arrays[array]) = 0
    THEN NewObject(store, [start |-> Null, end |-> Null, days |-> 0])
    ELSE CoverageInStore(
             SortedValuesInStore(NewArray(store, store.arrays[array]), GetTime))

ViewsAreZero(metric) == metric.views = 0

\* daily.filter(metric => metric.views === 0)
ZeroViewDaysInStore(store, array) ==
    NewArray(store,
             SelectSeq(store.arrays[array],
                       LAMBDA ref : ViewsAreZero(store.objects[ref])))

DataQualityInStore(label, array, coverage, filtered) ==
    NewObject(filtered.store,
              DataQualityOf(label, Deref(filtered.store, array),
                            filtered.store.objects[coverage]))

QualityAfterCoverage(label, array, coverage) ==
    IF coverage.store.objects[coverage.ref].start = Null
    THEN NewObject(coverage.store,
                   DataQualityOf(label, <<>>, coverage.store.objects[coverage.ref]))
    ELSE DataQualityInStore(label, array, coverage.ref,
                            ZeroViewDaysInStore(coverage.store, array))

\* buildDataQuality(label, daily); ref: the DataQualitySummary it returns
buildDataQualityInStore(label, store, array) ==
    QualityAfterCoverage(label, array, buildCoverageInStore(store, array))

\* existing.views += metric.views; byDate.set(key, existing)
ByDateAddInStore(st, key, entry, metric) ==
    [store  |-> WriteObject(st.store, entry,
                    [date  |-> st.store.objects[entry].date,
                     views |-> st.store.objects[entry].views + metric.views]),
     byDate |-> MapSet(st.byDate, key, entry)]

ByDateNewInStore(st, key, entry, metric) ==
    ByDateAddInStore([store |-> entry.store, byDate |-> st.byDate], key,
                     entry.ref, metric)

\* the body of daily.forEach in buildDayOfWeekSummary
ByDateStepInStore(st, key, metric) ==
    IF MapHas(st.byDate, key)
    THEN ByDateAddInStore(st, key, MapGet(st.byDate, key), metric)
    ELSE ByDateNewInStore(st, key,
                          NewObject(st.store, [date |-> metric.date, views |-> 0]),
                          metric)

RECURSIVE ByDateInStore(_, _, _)
ByDateInStore(st, refs, i) ==
    IF i > Len(refs) THEN st
    ELSE ByDateInStore(ByDateStepInStore(st,
                                         toDayKey(st.store.objects[refs[i]].date),
                                         st.store.objects[refs[i]]),
                       refs, i + 1)

SummaryBucket(day) ==
    [day |-> day, averageViews |-> 0, totalViews |-> 0, days |-> 0]

\* dayNames.map(day => ({ day, averageViews: 0, totalViews: 0, days: 0 }))
RECURSIVE SummaryInStore(_, _, _)
RECURSIVE SummaryNext(_, _, _)
SummaryInStore(store, refs, i) ==
    IF i > Len(dayNames) THEN NewArray(store, refs)
    ELSE SummaryNext(NewObject(store, SummaryBucket(dayNames[i])), refs, i)

SummaryNext(bucket, refs, i) ==
    SummaryInStore(bucket.store, Append(refs, bucket.ref), i + 1)

\* bucket.totalViews += entry.views; bucket.days += 1
AddToDay(bucket, entry) ==
    [day          |-> bucket.day,
     averageViews |-> bucket.averageViews,
     totalViews   |-> bucket.totalViews + entry.views,
     days         |-> bucket.days + 1]

\* the body of byDate.forEach: bucket = summary[entry.date.getUTCDay()]
RECURSIVE DaysInStore(_, _, _, _)
DaysInStore(store, summary, entries, i) ==
    IF i > Len(entries) THEN store
    ELSE DaysInStore(
             WriteObject(store,
                 store.arrays[summary][getUTCDay(store.objects[entries[i]].date) + 1],
                 AddToDay(store.objects[store.arrays[summary]
                              [getUTCDay(store.objects[entries[i]].date) + 1]],
                          store.objects[entries[i]])),
             summary, entries, i + 1)

\* bucket.averageViews = bucket.days ? bucket.totalViews / bucket.days : 0
WithAverage(bucket) ==
    [day          |-> bucket.day,
     averageViews |-> IF bucket.days # 0
                      THEN <<bucket.totalViews, bucket.days>> ELSE <<0, 1>>,
     totalViews   |-> bucket.totalViews,
     days         |-> bucket.days]

\* the body of summary.forEach
RECURSIVE AveragesInStore(_, _, _)
AveragesInStore(store, summary, i) ==
    IF i > Len(store.arrays[summary]) THEN Returns(store, summary)
    ELSE AveragesInStore(
             WriteObject(store, store.arrays[summary][i],
                         WithAverage(store.objects[store.arrays[summary][i]])),
             summary, i + 1)

DayOfWeekInStore(summary, entries) ==
    AveragesInStore(DaysInStore(summary.store, summary.array, entries, 1),
                    summary.array, 1)

DayOfWeekAfterDates(st) ==
    DayOfWeekInStore(SummaryInStore(st.store, <<>>, 1), MapValues(st.byDate))

\* buildDayOfWeekSummary(daily)
buildDayOfWeekSummaryInStore(store, array) ==
    DayOfWeekAfterDates(ByDateInStore([store |-> store, byDate |-> <<>>],
                                      store.arrays[array], 1))

\* the files a pass is called with: an export over a month's end, a revised
\* export of the same days with one more, a LinkedIn export, and an earlier
\* export without views
PassFiles ==
    { ExportFile("x", DateUTC(2023, 0, 30, 0, 0), 4, 1),
      ExportFile("x", DateUTC(2023, 0, 30, 0, 0), 5, 2),
      ExportFile("linkedin", DateUTC(2023, 1, 1, 0, 0), 4, 1),
      ExportFile("x", DateUTC(2023, 0, 27, 0, 0), 4, 3) }

PassInputs == { FlatMap(files) : files \in SeqUpTo(PassFiles, MaxFiles) }

PassNames ==
    {"mergeDailyMetrics", "aggregateByMonth", "summarizeTotals", "buildCoverage",
     "buildDataQuality", "buildDayOfWeekSummary"}

PassCalls == [fn : PassNames, list : PassInputs]

\* what a call leaves: the store before and after, and the value returned
ArrayResult(before, returned) ==
    [before |-> before, after |-> returned.store,
     value  |-> Deref(returned.store, returned.value)]

ObjectResult(before, returned) ==
    [before |-> before, after |-> returned.store,
     value  |-> returned.store.objects[returned.ref]]

----------------------------------------------------------------------------
(* Calls of the Field Normalizer and the Validation Reporter: a loader reads  *)
(* the cells of a post row and computes its fallback engagement rate; a       *)
(* loader validates the headers it discovered against its column groups.      *)

\* cells of the Impressions column
ImpressionCells == {"", "0", "200", "1,000", "-200", "n/a"}

\* cells of the Likes, Replies / Comments and Reposts columns
LikeCells == {"10", "0"}

CommentCells == {"5", ""}

RepostCells == {"5", "1"}

RateCalls ==
    [fn : {"calculateEngagementRate"}, impressions : ImpressionCells,
     likes : LikeCells, comments : CommentCells, reposts : RepostCells]

\* header names a file may carry, in several spellings
HeaderVocabulary ==
    << "Date", "DATE", "Impressions", "impressions (total)", "Retweets",
       "reposts", "Likes", "Shares", "Clicks (organic)" >>

\* the lists of discovered headers: the sublists of the vocabulary
HeaderLists ==
    { LET Chosen(h) == h \in chosen IN SelectSeq(HeaderVocabulary, Chosen) :
        chosen \in SUBSET Range(HeaderVocabulary) }

ValidationCalls ==
    [fn : {"buildCsvValidation"}, id : {"x-daily", "linkedin-daily"},
     headers : HeaderLists]

\* a text csv-parse rejects (an unclosed quote, say)
UnparseableText == File(TRUE, TRUE, FALSE, <<>>)

\* an export with a title line, a header row whose label cell is padded and
\* in upper case, a blank row, a short row, and a footer row that holds the
\* label once more
TitledText ==
    CsvFile(<< <<"Account overview">>,
               <<"Impressions", " DATE ", "Likes ">>,
               <<"100", "1/30/2023", "4">>,
               <<" ", "">>,
               <<"90", "1/31/2023">>,
               <<"Total", "date", "4">> >>)

\* an export of another shape: no row holds the label
OtherShapeText ==
    CsvFile(<< <<"Day", "Impressions">>, <<"1/30/2023", "100">> >>)

EmptyText == CsvFile(<<>>)

\* a posts export: the label is the header of the third column, and a
\* header occurs twice
PostsText ==
    CsvFile(<< <<"All posts">>,
               <<"Post title", "Impressions", "Created Date", "Impressions">>,
               <<"Launch", "500", "1/27/2023 9:30 AM", "510", "extra">> >>)

ParseTexts ==
    {UnparseableText, TitledText, OtherShapeText, EmptyText, PostsText}

ParseCalls ==
    [fn : {"parseCsvWithHeader"}, csvText : ParseTexts,
     headerLabel : {"Date", "Created date"}]

\* spreadsheet serials, as ratios: whole days, and days with a time of day
Serials ==
    { <<0, 1>>, <<1, 1>>, <<2, 1>>, <<44927, 1>>, <<89855, 2>>, <<179711, 4>>,
      <<44957, 1>>, <<45291, 1>>, <<0 - 1, 1>> }

SerialCalls == [fn : {"parseLinkedInDateTime"}, raw : Serials]

\* the host's local time is UTC + offset minutes
HostOffsets == {0 - 300, 0}

\* hosts east of Greenwich beside them
EasternOffsets == {330, 840}

\* Date cells of an X export: ISO days and M/D/YYYY days, a month's and a
\* year's last day and a leap day among them, and cells that name no day
DateCells ==
    {"2023-02-01", "2023-01-31", "2023-12-31", "2024-02-29", "2023-03-01",
     "2/1/2023", "1/31/2023", "12/31/2023", "2/29/2024", "1/1/2024",
     "2023-02-30", "n/a", "Total", ""}

DateCalls ==
    [fn : {"parseXDate"}, raw : DateCells,
     offset : HostOffsets \cup EasternOffsets]

InitCalls ==
    /\ call \in RateCalls \cup ValidationCalls \cup ParseCalls \cup SerialCalls
                 \cup PassCalls \cup DateCalls
    /\ result = NotYet
    /\ phase = "idle"
    /\ metrics = <<>>
    /\ daily = NotYet
    /\ remerged = NotYet
    /\ monthly = NotYet
    /\ totals = NotYet
    /\ quality = NotYet
    /\ momOut = NotYet
    /\ PipelineIdle

\* the fallback of a post's engagementRate: calculateEngagementRate on the
\* numbers toNumber reads from the row's cells
CallCalculateEngagementRate ==
    /\ call.fn = "calculateEngagementRate"
    /\ result = NotYet
    /\ result' = Some(calculateEngagementRate(toNumber(call.impressions),
                                              toNumber(call.likes),
                                              toNumber(call.comments),
                                              toNumber(call.reposts)))
    /\ UNCHANGED <<call, mergeVars, pipeVars>>

CallBuildCsvValidation ==
    /\ call.fn = "buildCsvValidation"
    /\ result = NotYet
    /\ result' = Some(buildCsvValidation(call.id, "raw", 0, call.headers,
                                         RequiredGroups(call.id),
                                         OptionalGroups(call.id)))
    /\ UNCHANGED <<call, mergeVars, pipeVars>>

\* a loader parses one text of its source group
CallParseCsvWithHeader ==
    /\ call.fn = "parseCsvWithHeader"
    /\ result = NotYet
    /\ result' = Some(parseCsvWithHeader(call.csvText, call.headerLabel))
    /\ UNCHANGED <<call, mergeVars, pipeVars>>

\* a date cell that holds a number is parsed, and parsed once more
CallParseLinkedInDateTime ==
    /\ call.fn = "parseLinkedInDateTime"
    /\ result = NotYet
    /\ result' = <<parseLinkedInDateTimeNumber(call.raw),
                   parseLinkedInDateTimeNumber(call.raw)>>
    /\ UNCHANGED <<call, mergeVars, pipeVars>>

\* loadXDailyMetrics reads a row's Date cell on a host
CallParseXDate ==
    /\ call.fn = "parseXDate"
    /\ result = NotYet
    /\ result' = Some(parseXDate(call.raw, call.offset))
    /\ UNCHANGED <<call, mergeVars, pipeVars>>

\* getDashboardData merges the records of its files
CallMergeDailyMetrics ==
    /\ call.fn = "mergeDailyMetrics"
    /\ result = NotYet
    /\ result' = ArrayResult(StoreOf(call.list),
                             mergeDailyMetricsInStore(StoreOf(call.list), 1))
    /\ UNCHANGED <<call, mergeVars, pipeVars>>

CallAggregateByMonth ==
    /\ call.fn = "aggregateByMonth"
    /\ result = NotYet
    /\ result' = ArrayResult(StoreOf(call.list),
                             aggregateByMonthInStore(StoreOf(call.list), 1))
    /\ UNCHANGED <<call, mergeVars, pipeVars>>

\* the months summarizeTotals is called with are those of the list
CallSummarizeTotals ==
    /\ call.fn = "summarizeTotals"
    /\ result = NotYet
    /\ result' = ObjectResult(StoreOf(aggregateByMonth(call.list)),
                     summarizeTotalsInStore(StoreOf(aggregateByMonth(call.list)), 1))
    /\ UNCHANGED <<call, mergeVars, pipeVars>>

CallBuildCoverage ==
    /\ call.fn = "buildCoverage"
    /\ result = NotYet
    /\ result' = ObjectResult(StoreOf(call.list),
                              buildCoverageInStore(StoreOf(call.list), 1))
    /\ UNCHANGED <<call, mergeVars, pipeVars>>

CallBuildDataQuality ==
    /\ call.fn = "buildDataQuality"
    /\ result = NotYet
    /\ result' = ObjectResult(StoreOf(call.list),
                     buildDataQualityInStore(QualityLabel(call.list),
                                             StoreOf(call.list), 1))
    /\ UNCHANGED <<call, mergeVars, pipeVars>>

CallBuildDayOfWeekSummary ==
    /\ call.fn = "buildDayOfWeekSummary"
    /\ result = NotYet
    /\ result' = ArrayResult(StoreOf(call.list),
                             buildDayOfWeekSummaryInStore(StoreOf(call.list), 1))
    /\ UNCHANGED <<call, mergeVars, pipeVars>>

NextCalls ==
    \/ CallCalculateEngagementRate
    \/ CallBuildCsvValidation
    \/ CallParseCsvWithHeader
    \/ CallParseLinkedInDateTime
    \/ CallParseXDate
    \/ CallMergeDailyMetrics
    \/ CallAggregateByMonth
    \/ CallSummarizeTotals
    \/ CallBuildCoverage
    \/ CallBuildDataQuality
    \/ CallBuildDayOfWeekSummary

SpecCalls == InitCalls /\ [][NextCalls]_vars

----------------------------------------------------------------------------
(* Inputs of a run of getDashboardData: File Provider snapshots. The cells  *)
(* of a file are strings; a day is written as an export writes it.          *)

\* "M/D/YYYY"
FormatMDY(date) ==
    LET c == CivilFromDays(DayOf(date))
    IN  ToString(c[2]) \o "/" \o ToString(c[3]) \o "/" \o ToString(c[1])

\* "YYYY-MM-DD"
FormatISO(date) == SubSeq(toISOString(date), 1, 10)

\* one row per day for a run of consecutive days, each with the same cells
DayRows(start, length, Format(_), cells) ==
    [i \in 1 .. length |-> <<Format(start + (i - 1) * dayMs)>> \o cells]

\* X account analytics, Jan 30 to Feb 2, with the export's row of totals
XDailyFileA ==
    CsvFile(<< <<"Date", "Impressions", "Likes", "Replies", "Reposts", "Shares",
                 "Bookmarks", "Profile visits", "Engagements", "Video views",
                 "Create Post", "New follows", "Unfollows">> >>
            \o DayRows(DateUTC(2023, 0, 30, 0, 0), 4, FormatISO,
                       <<"100", "10", "5", "4", "1", "2", "4", "20", "0",
                         "3", "2", "1">>)
            \o << <<"Total", "400", "40", "20", "16", "4", "8", "16", "80",
                    "0", "12", "8", "4">> >>)

\* a later export of Feb 1 to Feb 15, other header spellings, revised counts
XDailyFileB ==
    CsvFile(<< <<"date", "impressions", "Likes", "Retweets", "Video views">> >>
            \o DayRows(DateUTC(2023, 1, 1, 0, 0), 15, FormatMDY,
                       <<"80", "12", "7", "9">>))

XDailyFiles == {XDailyFileA, XDailyFileB}

XDailySample ==
    CsvFile(<< <<"Date", "Impressions", "Likes">> >>
            \o DayRows(DateUTC(2023, 0, 1, 0, 0), 2, FormatISO, <<"1,000", "30">>))

\* X video overview: Feb 1 is reported twice
XVideoFile ==
    CsvFile(<< <<"Date", "Views", "Watch Time (ms)", "Completion Rate">>,
               <<"2023-01-30", "10", "5000", "40">>,
               <<"2023-02-01", "7", "900", "55">>,
               <<"2023-02-01", "7", "1200", "60">> >>)

\* LinkedIn metrics, Jan 30 to Feb 2: a title line above the header, one day
\* reported a second time with a time of day, a blank row and a row
\* without a date
LinkedInDailyFileA ==
    CsvFile(<< <<"Daily metrics export">>,
               <<"Date", "Impressions (total)", "Clicks (total)",
                 "Reactions (total)", "Comments (total)", "Reposts (total)">> >>
            \o DayRows(DateUTC(2023, 0, 30, 0, 0), 4, FormatMDY,
                       <<"50", "4", "6", "2", "1">>)
            \o << <<"1/30/2023 6:30 PM", "40", "9", "6", "2", "1">>,
                  <<"", " ">>,
                  <<"TBD", "1", "1", "1", "1", "1">> >>)

\* a later export of Feb 1 to Feb 14
LinkedInDailyFileB ==
    CsvFile(<< <<"Date", "Impressions", "Reactions">> >>
            \o DayRows(DateUTC(2023, 1, 1, 0, 0), 14, FormatMDY, <<"1,000", "3">>))

LinkedInDailyFiles == {LinkedInDailyFileA, LinkedInDailyFileB}

LinkedInDailySample ==
    CsvFile(<< <<"Date", "Impressions (total)">> >>
            \o DayRows(DateUTC(2023, 0, 1, 0, 0), 2, FormatMDY, <<"70">>))

XPostHeader == <<"Post text", "Post Link", "Date", "Impressions", "Likes">>

\* the same permalink with 500 and with 800 impressions, and another post
XPostFileA ==
    CsvFile(<< XPostHeader,
               <<"gm", "x/1", "2023-01-27", "500", "5">>,
               <<"gm", "x/1", "2023-01-27", "800", "9">>,
               <<"later", "x/2", "2023-01-29", "20", "0">> >>)

\* posts without a permalink: the same text and date twice with the same
\* impressions; a row with neither text nor link; the permalink of file A
\* once more with 800 impressions
XPostFileB ==
    CsvFile(<< XPostHeader,
               <<"gm &amp; gn", "", "1/28/2023", "300", "1">>,
               <<"gm & gn", "", "1/28/2023", "300", "4">>,
               <<"", "", "1/28/2023", "50", "0">>,
               <<"gm", "x/1", "", "800", "2">> >>)

XPostFiles == {XPostFileA, XPostFileB}

LinkedInPostHeader ==
    <<"Post title", "Post link", "Created date", "Impressions", "Views">>

\* the same permalink with 500 and with 800 impressions, and another post
LinkedInPostFileA ==
    CsvFile(<< <<"All posts">>,
               LinkedInPostHeader,
               <<"Launch", "li/1", "1/27/2023", "500", "40">>,
               <<"Launch", "li/1", "1/27/2023 9:30 AM", "800", "60">>,
               <<"Hiring", "li/2", "2/1/2023", "20", "3">> >>)

\* a post without a permalink, once without and once with a time of day
\* (midnight) and the same impressions; a row without a date; the permalink
\* of file A with 800 impressions and no time of day
LinkedInPostFileB ==
    CsvFile(<< LinkedInPostHeader,
               <<"Recap", "", "1/28/2023", "300", "5">>,
               <<"Recap", "", "1/28/2023 0:00", "300", "6">>,
               <<"Recap", "", "TBD", "900", "1">>,
               <<"Launch", "li/1", "1/27/2023", "800", "70">> >>)

LinkedInPostFiles == {LinkedInPostFileA, LinkedInPostFileB}

\* a file that exists and cannot be read
UnreadableFile == File(TRUE, FALSE, FALSE, <<>>)

\* a snapshot: the datasets of the five dataset ids
Snapshot(xDaily, xVideo_, xPosts, linkedInDaily, linkedInPosts) ==
    [id \in DatasetIds |->
        CASE id = "x-daily"          -> xDaily
           [] id = "x-video-overview" -> xVideo_
           [] id = "x-posts"          -> xPosts
           [] id = "linkedin-daily"   -> linkedInDaily
           [] id = "linkedin-posts"   -> linkedInPosts]

\* the daily exports of one platform vary, up to MaxFiles files in any order
\* (without a file of its own it falls back to its sample), beside the two
\* files of the other platform
DailySnapshots ==
    { Snapshot(Dataset(xs, XDailySample),
               Dataset(<<XVideoFile>>, NoFile),
               Dataset(<<>>, NoFile),
               Dataset(<<LinkedInDailyFileA, LinkedInDailyFileB>>, NoFile),
               Dataset(<<LinkedInPostFileA>>, NoFile)) :
        xs \in SeqUpTo(XDailyFiles, MaxFiles) }
    \cup
    { Snapshot(Dataset(<<XDailyFileA, XDailyFileB>>, NoFile),
               Dataset(<<XVideoFile>>, NoFile),
               Dataset(<<>>, NoFile),
               Dataset(ls, LinkedInDailySample),
               Dataset(<<LinkedInPostFileA>>, NoFile)) :
        ls \in SeqUpTo(LinkedInDailyFiles, MaxFiles) }

\* the post exports of one platform vary, up to MaxFiles files in any order,
\* beside the two files of the other platform
PostSnapshots ==
    { Snapshot(Dataset(<<>>, XDailySample),
               Dataset(<<>>, NoFile),
               Dataset(xs, NoFile),
               Dataset(<<LinkedInDailyFileA>>, NoFile),
               Dataset(<<LinkedInPostFileA, LinkedInPostFileB>>, NoFile)) :
        xs \in SeqUpTo(XPostFiles, MaxFiles) }
    \cup
    { Snapshot(Dataset(<<>>, XDailySample),
               Dataset(<<>>, NoFile),
               Dataset(<<XPostFileA, XPostFileB>>, NoFile),
               Dataset(<<LinkedInDailyFileA>>, NoFile),
               Dataset(ls, NoFile)) :
        ls \in SeqUpTo(LinkedInPostFiles, MaxFiles) }

\* a file of a dataset cannot be read
FailureSnapshots ==
    { Snapshot(Dataset(<<XDailyFileA, UnreadableFile>>, XDailySample),
               Dataset(<<XVideoFile>>, NoFile),
               Dataset(<<XPostFileA>>, NoFile),
               Dataset(<<LinkedInDailyFileA>>, NoFile),
               Dataset(<<LinkedInPostFileA>>, NoFile)),
      Snapshot(Dataset(<<XDailyFileA>>, NoFile),
               Dataset(<<>>, NoFile),
               Dataset(<<>>, NoFile),
               Dataset(<<>>, UnreadableFile),
               Dataset(<<LinkedInPostFileA>>, NoFile)),
      \* a sample that cannot be read, behind raw files that can
      Snapshot(Dataset(<<XDailyFileA>>, UnreadableFile),
               Dataset(<<NoFile>>, XVideoFile),
               Dataset(<<XPostFileA>>, NoFile),
               Dataset(<<NoFile, LinkedInDailyFileA>>, UnreadableFile),
               Dataset(<<>>, NoFile)) }

\* an X export with a cell that is not a number and a cell with a negative
\* number, the day with the negative cell exported twice
XDailyOddCells ==
    CsvFile(<< <<"Date", "Impressions", "Likes", "New follows">>,
               <<"2023-03-01", "n/a", "3", "2">>,
               <<"2023-03-02", "120", "-4", "-1">>,
               <<"2023-03-02", "110", "-6", "">> >>)

LinkedInDailyOddCells ==
    CsvFile(<< <<"Date", "Impressions", "Clicks">>,
               <<"3/1/2023", "-50", "--">> >>)

OddCellSnapshots ==
    { Snapshot(Dataset(<<XDailyOddCells>>, NoFile),
               Dataset(<<>>, NoFile),
               Dataset(<<>>, NoFile),
               Dataset(<<LinkedInDailyOddCells>>, NoFile),
               Dataset(<<>>, NoFile)) }

\* a LinkedIn post export with a Views column: seven posts with a title or a
\* link, two of them level on impressions with different views, and a post
\* with neither title nor link that has the most impressions
LinkedInRankedPosts ==
    CsvFile(<< LinkedInPostHeader,
               <<"A", "li/a", "2/1/2023", "500", "10">>,
               <<"B", "li/b", "2/2/2023", "500", "40">>,
               <<"C", "", "2/3/2023", "100", "0">>,
               <<"", "li/d", "2/4/2023", "700", "5">>,
               <<"E", "li/e", "2/5/2023", "50", "1">>,
               <<"F", "li/f", "2/6/2023", "300", "2">>,
               <<"G", "li/g", "2/7/2023", "20", "3">>,
               <<"", "", "2/8/2023", "900", "9">> >>)

RankedPostSnapshots ==
    { Snapshot(Dataset(<<XDailyFileA>>, NoFile),
               Dataset(<<>>, NoFile),
               Dataset(<<>>, NoFile),
               Dataset(<<LinkedInDailyFileA>>, NoFile),
               Dataset(<<LinkedInRankedPosts>>, NoFile)) }

\* a LinkedIn post export with counters, a rate and a content type: two
\* posts in the same hour of a day, a post exported twice, posts without a
\* time of day, without impressions and without a content type, and eight
\* content types in all
LinkedInRollupHeader ==
    <<"Post title", "Post link", "Created date", "Impressions", "Views",
      "Likes", "Comments", "Reposts", "Engagement rate", "Content Type">>

LinkedInRollupPosts ==
    CsvFile(<< LinkedInRollupHeader,
        <<"P1", "li/1", "2/1/2023 9:30", "400", "10", "5", "1", "1", "", "Video">>,
        <<"P1", "li/1", "2/1/2023 9:30", "500", "10", "5", "1", "1", "", "Video">>,
        <<"P2", "li/2", "2/1/2023 9:45", "300", "20", "3", "0", "0", "0.5", "Video">>,
        <<"P3", "li/3", "2/2/2023", "100", "5", "1", "1", "0", "", "">>,
        <<"P4", "li/4", "2/3/2023 14:00", "0", "0", "2", "0", "0", "", "Poll">>,
        <<"P5", "li/5", "2/4/2023", "700", "1", "7", "0", "0", "n/a", "Image">>,
        <<"P6", "li/6", "2/5/2023", "50", "1", "1", "0", "0", "0", "Article">>,
        <<"P7", "li/7", "2/6/2023", "40", "1", "0", "0", "4", "", "Document">>,
        <<"P8", "li/8", "2/7/2023", "30", "3", "3", "0", "0", "", "Text">>,
        <<"P9", "li/9", "2/8/2023", "20", "2", "0", "0", "0", "", "Event">>,
        <<"P10", "li/10", "2/9/2023", "60", "2", "3", "0", "0", "", "">> >>)

\* three posts: one without impressions, one with engagements and one
\* without
LinkedInRollupFewPosts ==
    CsvFile(<< LinkedInRollupHeader,
        <<"Q1", "li/q1", "3/1/2023 8:00", "0", "0", "2", "0", "0", "", "Poll">>,
        <<"Q2", "li/q2", "3/2/2023", "50", "1", "1", "0", "0", "", "Text">>,
        <<"Q3", "li/q3", "3/3/2023", "20", "2", "0", "0", "0", "", "Text">> >>)

\* a LinkedIn metrics export of Feb 1 to Feb 3 with a column of post counts
\* of its own
LinkedInDailyPostsColumn ==
    CsvFile(<< <<"Date", "Impressions", "Posts">>,
               <<"2/1/2023", "10", "9">>,
               <<"2/2/2023", "10", "">>,
               <<"2/3/2023", "10", "0">> >>)

\* an X video overview with a row whose date is not one, between two days
XVideoOddRows ==
    CsvFile(<< <<"Date", "Views", "Watch Time (ms)", "Completion Rate">>,
               <<"2023-01-30", "10", "5000", "40">>,
               <<"n/a", "99", "99000", "99">>,
               <<"2023-01-31", "7", "900", "55">> >>)

\* an X export of Feb 1, 2 and 5, beside a LinkedIn export of Feb 1 to 3:
\* neither platform has a record of Feb 4
XDailyGapFile ==
    CsvFile(<< <<"Date", "Impressions", "Likes">>,
               <<"2023-02-01", "10", "1">>,
               <<"2023-02-02", "10", "1">>,
               <<"2023-02-05", "10", "1">> >>)

GapSnapshots ==
    { Snapshot(Dataset(<<XDailyGapFile>>, NoFile),
               Dataset(<<>>, NoFile),
               Dataset(<<>>, NoFile),
               Dataset(<<LinkedInDailyPostsColumn>>, NoFile),
               Dataset(<<>>, NoFile)) }

\* rows without a date in each of the three daily inputs, with rows after
\* them
RowDefectSnapshots ==
    { Snapshot(Dataset(<<XDailyFileA, XDailyFileB>>, NoFile),
               Dataset(<<XVideoOddRows>>, NoFile),
               Dataset(<<>>, NoFile),
               Dataset(<<LinkedInDailyFileA, LinkedInDailyFileB>>, NoFile),
               Dataset(<<LinkedInPostFileA>>, NoFile)) }

\* post exports with a rate column: cells that are empty, a decimal (with
\* and without impressions, padded, negative), blank, and no number
XPostRates ==
    CsvFile(<< <<"Post text", "Post Link", "Date", "Impressions", "Likes",
                 "Replies", "Reposts", "Engagement rate">>,
               <<"a", "x/r1", "2023-02-01", "200", "10", "5", "5", "">>,
               <<"b", "x/r2", "2023-02-01", "200", "10", "5", "5", "0.25">>,
               <<"c", "x/r3", "2023-02-02", "0", "0", "0", "0", "0.5">>,
               <<"d", "x/r4", "2023-02-02", "0", "3", "0", "0", "">>,
               <<"e", "x/r5", "2023-02-03", "100", "1", "1", "1", "12%">>,
               <<"f", "x/r6", "2023-02-03", "0", "1", "0", "0", "n/a">>,
               <<"g", "x/r7", "2023-02-04", "100", "4", "0", "0", " ">>,
               <<"h", "x/r8", "2023-02-04", "100", "4", "0", "0", " 0.1 ">>,
               <<"i", "x/r9", "2023-02-05", "100", "4", "0", "0", "-0.5">> >>)

LinkedInPostRates ==
    CsvFile(<< <<"Post title", "Post link", "Created date", "Impressions",
                 "Likes", "Comments", "Reposts", "Engagement rate (total)">>,
               <<"A", "li/r1", "2/1/2023", "200", "10", "5", "5", "">>,
               <<"B", "li/r2", "2/1/2023", "200", "10", "5", "5", "0.25">>,
               <<"C", "li/r3", "2/2/2023", "0", "0", "0", "0", "0.5">>,
               <<"D", "li/r4", "2/2/2023", "0", "3", "0", "0", "">>,
               <<"E", "li/r5", "2/3/2023", "100", "1", "1", "1", "12%">>,
               <<"F", "li/r6", "2/3/2023", "0", "1", "0", "0", "n/a">>,
               <<"G", "li/r7", "2/4/2023", "100", "4", "0", "0", " ">> >>)

RateSnapshots ==
    { Snapshot(Dataset(<<XDailyFileA>>, NoFile),
               Dataset(<<>>, NoFile),
               Dataset(<<XPostRates>>, NoFile),
               Dataset(<<LinkedInDailyFileA>>, NoFile),
               Dataset(<<LinkedInPostRates>>, NoFile)) }

RollupSnapshots ==
    { Snapshot(Dataset(<<XDailyFileA>>, NoFile),
               Dataset(<<>>, NoFile),
               Dataset(<<>>, NoFile),
               Dataset(<<LinkedInDailyFileA, LinkedInDailyPostsColumn>>, NoFile),
               Dataset(<<posts>>, NoFile)) :
        posts \in {LinkedInRollupPosts, LinkedInRollupFewPosts} }

Snapshots ==
    DailySnapshots \cup PostSnapshots \cup FailureSnapshots \cup OddCellSnapshots
                   \cup RankedPostSnapshots \cup RollupSnapshots
                   \cup RowDefectSnapshots \cup GapSnapshots \cup RateSnapshots

----------------------------------------------------------------------------
(* getDashboardData. It awaits loadLinkedInPostsData, then loadXPostsData,   *)
(* then Promise.all of loadXDailyMetrics (which first awaits                 *)
(* loadXVideoOverviewByDate) and loadLinkedInDailyMetrics: the steps of      *)
(* these two interleave. A read that fails rejects the load and with it the  *)
(* run. The File Provider snapshot does not change during a run.             *)

\* buildPlatformData
PlatformDataOf(list, months) ==
    [daily    |-> list,
     monthly  |-> months,
     totals   |-> summarizeTotals(months),
     coverage |-> buildCoverage(list)]

\* the first record of each day, whatever its platform
FirstOfDay(list) ==
    MapValues(SelectSeq([i \in DOMAIN list |-> <<i, list[i]>>],
                        LAMBDA pair : \A j \in 1 .. pair[1] - 1 :
                            toDayKey(list[j].date) # toDayKey(pair[2].date)))

\* platform data over one record per day
buildPlatformDataPerDay(list) ==
    PlatformDataOf(FirstOfDay(list), aggregateByMonth(FirstOfDay(list)))

buildPlatformData(list) == PlatformDataOf(list, aggregateByMonth(list))

\* const csvValidation = [...]
CsvValidationList(xDaily, linkedInDaily, xPosts, linkedInPosts) ==
    << xDaily.validation, xDaily.videoValidation, xPosts.validation,
       linkedInDaily.validation, linkedInPosts.validation >>

\* the DashboardData getDashboardData returns (the engagement mix and the
\* day-of-week summary are not part of this model)
DashboardData(xDaily, linkedInDaily, xPosts, linkedInPosts, combinedData,
              csvValidation) ==
    [x        |-> buildPlatformData(xDaily.metrics),
     linkedin |-> buildPlatformData(linkedInDaily.metrics),
     combined |-> combinedData,
     mom      |-> calculateMomGrowth(combinedData.monthly),
     xTopPosts        |-> xPosts.topPosts,
     linkedinTopPosts |-> linkedInPosts.topPosts,
     dataQuality |->
         << buildDataQuality("X", xDaily.metrics),
            buildDataQuality("LinkedIn", linkedInDaily.metrics),
            buildDataQuality("Combined", combinedData.daily) >>,
     csvValidation   |-> csvValidation,
     usingSampleData |-> \E i \in DOMAIN csvValidation :
                             csvValidation[i].source = "sample"]

Init ==
    /\ provider \in Snapshots
    /\ hostOffset \in HostOffsets
    /\ pc = "loadLinkedInPostsData"
    /\ xpc = "idle"
    /\ lpc = "idle"
    /\ linkedInPostsData = NotYet
    /\ xPostsData = NotYet
    /\ xVideo = NotYet
    /\ xDailyResult = NotYet
    /\ linkedInDailyResult = NotYet
    /\ dashboard = NotYet
    /\ phase = "idle"
    /\ metrics = <<>>
    /\ daily = NotYet
    /\ remerged = NotYet
    /\ monthly = NotYet
    /\ totals = NotYet
    /\ quality = NotYet
    /\ momOut = NotYet
    /\ call = NoCall
    /\ result = NotYet

\* const linkedInPostsData = await loadLinkedInPostsData()
LoadLinkedInPosts ==
    /\ pc = "loadLinkedInPostsData"
    /\ linkedInPostsData' =
           loadLinkedInPostsData(provider["linkedin-posts"], hostOffset)
    /\ pc' = IF linkedInPostsData'.rejected THEN "rejected"
             ELSE "loadXPostsData"
    /\ UNCHANGED <<provider, hostOffset, xpc, lpc, xPostsData, xVideo,
                   xDailyResult, linkedInDailyResult, dashboard>>
    /\ UNCHANGED <<mergeVars, callVars>>

\* const xPostsData = await loadXPostsData(); then Promise.all starts the
\* two daily loads
LoadXPosts ==
    /\ pc = "loadXPostsData"
    /\ xPostsData' = loadXPostsData(provider["x-posts"], hostOffset)
    /\ IF xPostsData'.rejected
       THEN pc' = "rejected" /\ UNCHANGED <<xpc, lpc>>
       ELSE /\ pc' = "Promise.all"
            /\ xpc' = "loadXVideoOverviewByDate"
            /\ lpc' = "loadLinkedInDailyMetrics"
    /\ UNCHANGED <<provider, hostOffset, linkedInPostsData, xVideo,
                   xDailyResult, linkedInDailyResult, dashboard>>
    /\ UNCHANGED <<mergeVars, callVars>>

\* loadXDailyMetrics: await loadXVideoOverviewByDate()
LoadXVideoOverview ==
    /\ xpc = "loadXVideoOverviewByDate"
    /\ xVideo' = loadXVideoOverviewByDate(provider["x-video-overview"],
                                          hostOffset)
    /\ IF xVideo'.rejected
       THEN /\ xpc' = "rejected"
            /\ pc' = "rejected"
       ELSE /\ xpc' = "loadXDailyMetrics"
            /\ pc' = pc
    /\ UNCHANGED <<provider, hostOffset, lpc, linkedInPostsData, xPostsData,
                   xDailyResult, linkedInDailyResult, dashboard>>
    /\ UNCHANGED <<mergeVars, callVars>>

\* a platform-A load that also empties the map the platform-B load was given
LoadXDailyClearingPosts ==
    /\ xpc = "loadXDailyMetrics"
    /\ xDailyResult' = loadXDailyMetrics(xVideo, provider["x-daily"], hostOffset)
    /\ linkedInPostsData' = [linkedInPostsData EXCEPT !.postsByDate = <<>>]
    /\ IF xDailyResult'.rejected
       THEN /\ xpc' = "rejected"
            /\ pc' = "rejected"
       ELSE /\ xpc' = "resolved"
            /\ pc' = pc
    /\ UNCHANGED <<provider, hostOffset, lpc, xPostsData, xVideo,
                   linkedInDailyResult, dashboard>>
    /\ UNCHANGED <<mergeVars, callVars>>

\* loadXDailyMetrics, after the video overview
LoadXDaily ==
    /\ xpc = "loadXDailyMetrics"
    /\ xDailyResult' = loadXDailyMetrics(xVideo, provider["x-daily"], hostOffset)
    /\ IF xDailyResult'.rejected
       THEN /\ xpc' = "rejected"
            /\ pc' = "rejected"
       ELSE /\ xpc' = "resolved"
            /\ pc' = pc
    /\ UNCHANGED <<provider, hostOffset, lpc, linkedInPostsData, xPostsData,
                   xVideo, linkedInDailyResult, dashboard>>
    /\ UNCHANGED <<mergeVars, callVars>>

\* loadLinkedInDailyMetrics(linkedInPostsData.postsByDate)
LoadLinkedInDaily ==
    /\ lpc = "loadLinkedInDailyMetrics"
    /\ linkedInDailyResult' =
           loadLinkedInDailyMetrics(linkedInPostsData.postsByDate,
                                    provider["linkedin-daily"], hostOffset)
    /\ IF linkedInDailyResult'.rejected
       THEN /\ lpc' = "rejected"
            /\ pc' = "rejected"
       ELSE /\ lpc' = "resolved"
            /\ pc' = pc
    /\ UNCHANGED <<provider, hostOffset, xpc, linkedInPostsData, xPostsData,
                   xVideo, xDailyResult, dashboard>>
    /\ UNCHANGED <<mergeVars, callVars>>

\* the rest of getDashboardData, once Promise.all has resolved
BuildDashboard ==
    /\ pc = "Promise.all"
    /\ xpc = "resolved"
    /\ lpc = "resolved"
    /\ dashboard' =
           DashboardData(xDailyResult, linkedInDailyResult, xPostsData,
                         linkedInPostsData,
                         buildPlatformData(xDailyResult.metrics
                                           \o linkedInDailyResult.metrics),
                         CsvValidationList(xDailyResult, linkedInDailyResult,
                                           xPostsData, linkedInPostsData))
    /\ pc' = "returned"
    /\ UNCHANGED <<provider, hostOffset, xpc, lpc, linkedInPostsData,
                   xPostsData, xVideo, xDailyResult, linkedInDailyResult>>
    /\ UNCHANGED <<mergeVars, callVars>>

Next ==
    \/ LoadLinkedInPosts
    \/ LoadXPosts
    \/ LoadXVideoOverview
    \/ LoadXDaily
    \/ LoadLinkedInDaily
    \/ BuildDashboard

Spec == Init /\ [][Next]_vars

----------------------------------------------------------------------------
(* Claims on the Merge Engine and the Aggregator, checked under SpecMerge *)

RECURSIVE SumSeq(_)
SumSeq(seq) == IF seq = <<>> THEN 0 ELSE Head(seq) + SumSeq(Tail(seq))

\* the sum of a counter over the records of a list
SumField(list, field) == SumSeq([i \in DOMAIN list |-> list[i][field]])

\* The run writes each result once: a claim on a result is checked in the
\* state that follows the step writing it.
Merged == phase = "merged"

Aggregated == phase = "aggregated"

Qualified == phase = "qualified"

\* C1: for every (platform, day) key of the input of mergeDailyMetrics, the
\* output record of that key holds, counter by counter, the maximum of the
\* counter over the input records of the key (a value one of them has, and
\* no smaller than any of them): never their sum.
C1_MergeKeepsMaxPerCounter ==
    Merged =>
        LET inKey  == [n \in DOMAIN metrics |-> MergeKey(metrics[n])]
            outKey == [j \in DOMAIN daily |-> MergeKey(daily[j])]
        IN  \A i \in DOMAIN metrics :
                LET same == {n \in DOMAIN metrics : inKey[n] = inKey[i]}
                    out  == {j \in DOMAIN daily : outKey[j] = inKey[i]}
                IN  /\ out # {}
                    /\ \A j \in out : \A f \in MetricKeySet :
                         /\ \E n \in same : daily[j][f] = metrics[n][f]
                         /\ \A n \in same : metrics[n][f] <= daily[j][f]

\* C1 witness: a day exported twice, with views 100 and 80 and likes 10 and
\* 12, merged into a record with views 100 and likes 12
C1_Witness ==
    /\ phase = "merged"
    /\ \E i, n \in DOMAIN metrics : \E j \in DOMAIN daily :
         /\ MergeKey(metrics[i]) = MergeKey(metrics[n])
         /\ MergeKey(daily[j]) = MergeKey(metrics[i])
         /\ metrics[i].views = 100 /\ metrics[n].views = 80
         /\ metrics[i].likes = 10 /\ metrics[n].likes = 12
         /\ daily[j].views = 100 /\ daily[j].likes = 12

\* C3: mergeDailyMetrics is idempotent: merging its own output gives the same
\* records, with the same counters, in the same order.
C3_MergeIdempotent ==
    phase = "remerged" => remerged = daily

\* C3 witness: a merge of records that were out of date order and held
\* duplicate days, its output merged a second time
C3_Witness ==
    /\ phase = "remerged"
    /\ Len(daily) < Len(metrics)
    /\ \E i \in 1 .. Len(metrics) - 1 : metrics[i].date > metrics[i + 1].date
    /\ Len(remerged) >= 5

\* C4: every UTC year-month with a daily record has exactly one MonthSummary;
\* each of its 16 counters is the sum of the counter over the daily records
\* of the month, and days is the number of those records.
C4_MonthSummaryIsSum ==
    Aggregated =>
        /\ \A i \in DOMAIN daily :
             \E j \in DOMAIN monthly :
                monthly[j].monthKey = toMonthKey(daily[i].date)
        /\ \A j, k \in DOMAIN monthly :
             monthly[j].monthKey = monthly[k].monthKey => j = k
        /\ \A j \in DOMAIN monthly :
             LET InMonth(m) == toMonthKey(m.date) = monthly[j].monthKey
                 records    == SelectSeq(daily, InMonth)
             IN  /\ Len(records) >= 1
                 /\ monthly[j].days = Len(records)
                 /\ \A f \in MetricKeySet :
                      monthly[j][f] = SumField(records, f)

\* C4 witness: two months aggregated, one of them from several days whose
\* views differ
C4_Witness ==
    /\ phase = "aggregated"
    /\ Len(monthly) >= 2
    /\ \E j \in DOMAIN monthly :
         /\ monthly[j].days >= 3
         /\ \E a, b \in DOMAIN daily :
              /\ toMonthKey(daily[a].date) = monthly[j].monthKey
              /\ toMonthKey(daily[b].date) = monthly[j].monthKey
              /\ daily[a].views # daily[b].views

\* C6: buildDataQuality on a non-empty series: expectedDays is the number of
\* calendar days from the earliest to the latest record, both included, the
\* coverage's days is the number of records, and missingDays is
\* max(expectedDays - days, 0); on an empty series the coverage has no start
\* and no end and expectedDays and missingDays are null.
C6_DataQualityCounts ==
    Qualified =>
        IF daily = <<>>
        THEN /\ quality.coverage.start = Null
             /\ quality.coverage.end = Null
             /\ quality.expectedDays = Null
             /\ quality.missingDays = Null
        ELSE LET dates    == {daily[i].date : i \in DOMAIN daily}
                 earliest == CHOOSE d \in dates : \A e \in dates : d <= e
                 latest   == CHOOSE d \in dates : \A e \in dates : e <= d
                 span     == Cardinality(DayOf(earliest) .. DayOf(latest))
             IN  /\ quality.coverage.start = Some(earliest)
                 /\ quality.coverage.end = Some(latest)
                 /\ quality.coverage.days = Len(daily)
                 /\ quality.expectedDays = Some(span)
                 /\ quality.missingDays =
                        Some(IF span > Len(daily) THEN span - Len(daily) ELSE 0)

\* C6 witness: a series of the ten days 2023-01-27 .. 2023-02-05 without the
\* fifth, 2023-01-31: expected 10, observed 9, missing 1
C6_Witness ==
    /\ phase = "qualified"
    /\ {toDayKey(daily[i].date) : i \in DOMAIN daily} =
          { <<2023, 1, 27>>, <<2023, 1, 28>>, <<2023, 1, 29>>, <<2023, 1, 30>>,
            <<2023, 2, 1>>, <<2023, 2, 2>>, <<2023, 2, 3>>, <<2023, 2, 4>>,
            <<2023, 2, 5>> }
    /\ Len(daily) = 9
    /\ quality.expectedDays = Some(10)
    /\ quality.coverage.days = 9
    /\ quality.missingDays = Some(1)

\* C9: calculateMomGrowth: with fewer than two MonthSummary entries every
\* delta is null; with two or more, the list being sorted by month key, each
\* delta is (current - previous) / previous of the last entry against the
\* second-to-last, and null when previous is zero: no delta has a zero
\* denominator.
C9_MomGrowth ==
    phase = "done" =>
        /\ Len(monthly) < 2 => \A k \in MomKeys : momOut[k] = Null
        /\ Len(monthly) >= 2 =>
             LET current  == monthly[Len(monthly)]
                 previous == monthly[Len(monthly) - 1]
             IN  /\ \A j \in 1 .. Len(monthly) - 1 :
                      MonthOrder(monthly[j]) < MonthOrder(monthly[j + 1])
                 /\ \A k \in MomKeys :
                      IF previous[k] = 0
                      THEN momOut[k] = Null
                      ELSE momOut[k] = <<current[k] - previous[k], previous[k]>>
        /\ \A k \in MomKeys : momOut[k] # Null => momOut[k][2] # 0

\* C9 witness: three months, the second-to-last without posts (delta null)
\* but with likes (delta known)
C9_Witness ==
    /\ phase = "done"
    /\ Len(monthly) = 3
    /\ monthly[2].posts = 0 /\ momOut.posts = Null
    /\ monthly[2].likes # 0 /\ momOut.likes # Null
    /\ monthly[1].likes # monthly[2].likes

----------------------------------------------------------------------------
(* Claims on the Field Normalizer and the Validation Reporter, checked under *)
(* SpecCalls                                                                 *)

Returned(fn) == call.fn = fn /\ result # NotYet

\* C8, as claimed: calculateEngagementRate returns
\* (likes + secondary + reposts) / impressions when impressions > 0 and null
\* in every other case. The code returns a ratio for negative impressions.
C8_RateNullUnlessPositive ==
    Returned("calculateEngagementRate") =>
        LET impressions == toNumber(call.impressions)
            engagement  == toNumber(call.likes) + toNumber(call.comments)
                           + toNumber(call.reposts)
        IN  IF impressions > 0
            THEN /\ result[1] # Null
                 /\ result[1][1] * impressions = engagement * result[1][2]
            ELSE result[1] = Null

\* two strings are equal up to the case of their letters
SameLetter(c, d) ==
    LET upper == "ABCDEFGHIJKLMNOPQRSTUVWXYZ"
        lower == "abcdefghijklmnopqrstuvwxyz"
    IN  \/ c = d
        \/ \E i \in 1 .. Len(upper) :
              {c, d} = {CharAt(upper, i), CharAt(lower, i)}

EqualsIgnoreCase(a, b) ==
    /\ Len(a) = Len(b)
    /\ \A i \in 1 .. Len(a) : SameLetter(CharAt(a, i), CharAt(b, i))

\* none of the group's aliases is a discovered header, whatever the case
GroupAbsent(group, headers) ==
    \A i \in DOMAIN group.fields : \A j \in DOMAIN headers :
        ~EqualsIgnoreCase(group.fields[i], headers[j])

\* C10: buildCsvValidation reports a column group missing if and only if none
\* of its aliases equals a discovered header case-insensitively; a required
\* group that is missing is listed by label in missingRequired and never in
\* missingOptional, an optional one only in missingOptional.
C10_MissingGroups ==
    Returned("buildCsvValidation") =>
        LET required == RequiredGroups(call.id)
            optional == OptionalGroups(call.id)
            report   == result[1]
        IN  /\ \A i \in DOMAIN required :
                 /\ GroupAbsent(required[i], call.headers)
                      <=> required[i].label \in Range(report.missingRequired)
                 /\ required[i].label \notin Range(report.missingOptional)
            /\ \A i \in DOMAIN optional :
                 /\ GroupAbsent(optional[i], call.headers)
                      <=> optional[i].label \in Range(report.missingOptional)
                 /\ optional[i].label \notin Range(report.missingRequired)

\* C10 witness: headers that satisfy Date only in upper case and Reposts only
\* through its alias Retweets, and lack Impressions and Likes
C10_Witness ==
    /\ Returned("buildCsvValidation")
    /\ call.id = "x-daily"
    /\ call.headers = <<"DATE", "Retweets">>
    /\ result[1].missingRequired = <<"Impressions">>
    /\ "Likes" \in Range(result[1].missingOptional)
    /\ "Reposts" \notin Range(result[1].missingOptional)

----------------------------------------------------------------------------
(* Claims on the Table Extractor, checked under SpecCalls *)

\* the row holds a cell that equals the label once both are trimmed, whatever
\* the case of the letters
HoldsLabel(row, label) ==
    \E k \in DOMAIN row : EqualsIgnoreCase(trim(row[k]), trim(label))

EmptyTable == [headers |-> <<>>, rows |-> <<>>]

\* the table is read below the row: its columns are the row's cells, trimmed
\* and in order, and it has one record per row below that is not blank
ReadBelow(table, rawRows, i) ==
    /\ Len(table.headers) = Len(rawRows[i])
    /\ \A k \in DOMAIN rawRows[i] : table.headers[k] = trim(rawRows[i][k])
    /\ Len(table.rows) =
           Cardinality({j \in i + 1 .. Len(rawRows) :
                           \E k \in DOMAIN rawRows[j] : trim(rawRows[j][k]) # ""})

HeaderRowOf(table, text, label) ==
    IF ~text.parses \/ \A i \in DOMAIN text.rows : ~HoldsLabel(text.rows[i], label)
    THEN table = EmptyTable
    ELSE \E i \in DOMAIN text.rows :
            /\ HoldsLabel(text.rows[i], label)
            /\ \A j \in 1 .. i - 1 : ~HoldsLabel(text.rows[j], label)
            /\ ReadBelow(table, text.rows, i)

\* C11: parseCsvWithHeader always returns a table: the header is the first
\* row, in order, that holds a cell whose trimmed value equals the label
\* case-insensitively; when no row does, or the text does not parse as
\* delimited data, the table has no columns and no records.
C11_HeaderRow ==
    Returned("parseCsvWithHeader") =>
        HeaderRowOf(result[1], call.csvText, call.headerLabel)

\* C11 witness: the label is found padded and in upper case in the second
\* row, and once more in the footer; the table is read below the second row
C11_Witness ==
    /\ Returned("parseCsvWithHeader")
    /\ call.csvText = TitledText
    /\ call.headerLabel = "Date"
    /\ result[1].headers = <<"Impressions", "DATE", "Likes">>
    /\ Len(result[1].rows) = 3

----------------------------------------------------------------------------
(* The daily series of the two loaders *)

\* the records the rows of the X daily files map to, before the merge
XDailyInput ==
    XDailyRecords(ReadDataset(provider["x-daily"], "Date").rows,
                  xVideo.videoMap, hostOffset)

\* the records the rows of the LinkedIn daily files map to, before the merge
LinkedInDailyInput ==
    LinkedInDailyRecords(ReadDataset(provider["linkedin-daily"], "Date").rows,
                         linkedInPostsData.postsByDate, hostOffset)

\* the platform and the UTC calendar day of a record
PlatformDay(metric) == <<metric.source, CivilFromDays(DayOf(metric.date))>>

OnePerPlatformDay(input, output) ==
    /\ \A i, j \in DOMAIN output :
           PlatformDay(output[i]) = PlatformDay(output[j]) => i = j
    /\ \A i \in DOMAIN input :
           \E j \in DOMAIN output : PlatformDay(output[j]) = PlatformDay(input[i])

\* rows of the same day with different views became one record
Collapsed(input, output) ==
    /\ \E i, j \in DOMAIN input :
           /\ i # j
           /\ PlatformDay(input[i]) = PlatformDay(input[j])
           /\ input[i].views # input[j].views
    /\ Len(output) < Len(input)

\* C2: the series loadXDailyMetrics and loadLinkedInDailyMetrics return hold
\* at most one DailyMetric per platform and UTC calendar day, and every
\* (platform, day) that a row of the input files maps to has its record.
C2_OnePerPlatformDay ==
    /\ xpc = "resolved" =>
           OnePerPlatformDay(XDailyInput, xDailyResult.metrics)
    /\ lpc = "resolved" =>
           OnePerPlatformDay(LinkedInDailyInput, linkedInDailyResult.metrics)

\* both loaders have merged files that overlap: rows of the same day, with
\* different counters, became one record
C2_Witness ==
    /\ xpc = "resolved"
    /\ lpc = "resolved"
    /\ Collapsed(XDailyInput, xDailyResult.metrics)
    /\ Collapsed(LinkedInDailyInput, linkedInDailyResult.metrics)

----------------------------------------------------------------------------
(* The month summaries of the dashboard *)

DaysWithinMonth(months) ==
    \A i \in DOMAIN months : months[i].days <= DaysInMonth(months[i].monthKey)

\* C5: in every MonthSummary getDashboardData returns, for x, for linkedin
\* and for combined, `days` is at most the number of calendar days of the
\* month.
C5_DaysWithinMonth ==
    pc = "returned" =>
        /\ DaysWithinMonth(dashboard.x.monthly)
        /\ DaysWithinMonth(dashboard.linkedin.monthly)
        /\ DaysWithinMonth(dashboard.combined.monthly)

----------------------------------------------------------------------------
(* Post deduplication *)

\* the posts the rows of the X post files map to, in file order
XPostRows == XPosts(ReadDataset(provider["x-posts"], "Impressions").rows,
                    hostOffset)

\* the posts the rows of the LinkedIn post files map to, in file order
LinkedInPostRows ==
    LinkedInRawPosts(ReadDataset(provider["linkedin-posts"], "Created date").rows,
                     hostOffset)

\* the identity of a post: its permalink if it has one, else its text or
\* title and its creation timestamp
XIdentity(post) ==
    IF post.link # "" THEN <<"permalink", post.link>>
    ELSE <<"text", post.text, post.createdAt>>

LinkedInIdentity(post) ==
    IF post.link # "" THEN <<"permalink", post.link>>
    ELSE <<"title", post.title, post.createdAt>>

\* the row that stays of the rows of one identity: the first of those with
\* the most impressions or, where timed is set, the first of those that has
\* a time of day if one has
KeptRow(rows, same, timed) ==
    LET most  == CHOOSE n \in {rows[i].impressions : i \in same} :
                     \A i \in same : rows[i].impressions <= n
        top   == {i \in same : rows[i].impressions = most}
        pick  == IF timed /\ \E i \in top : rows[i].hasTime
                 THEN {i \in top : rows[i].hasTime}
                 ELSE top
    IN  rows[CHOOSE i \in pick : \A j \in pick : i <= j]

\* out is the deduplication of the X rows
XDeduplicated(rows, out) ==
    /\ \A i \in DOMAIN rows :
           LET same == {j \in DOMAIN rows :
                           XIdentity(rows[j]) = XIdentity(rows[i])}
               kept == {k \in DOMAIN out :
                           XIdentity(out[k]) = XIdentity(rows[i])}
           IN  /\ Cardinality(kept) = 1
               /\ \A k \in kept :
                      /\ out[k] = KeptRow(rows, same, FALSE)
                      /\ \A j \in same :
                             out[k].impressions >= rows[j].impressions
    /\ \A k \in DOMAIN out : \E i \in DOMAIN rows : out[k] = rows[i]

\* out is the deduplication of the LinkedIn rows
LinkedInDeduplicated(rows, out) ==
    /\ \A i \in DOMAIN rows :
           LET same == {j \in DOMAIN rows :
                           LinkedInIdentity(rows[j]) = LinkedInIdentity(rows[i])}
               kept == {k \in DOMAIN out :
                           LinkedInIdentity(out[k]) = LinkedInIdentity(rows[i])}
           IN  /\ Cardinality(kept) = 1
               /\ \A k \in kept :
                      /\ out[k] = KeptRow(rows, same, TRUE)
                      /\ \A j \in same :
                             out[k].impressions >= rows[j].impressions
    /\ \A k \in DOMAIN out : \E i \in DOMAIN rows : out[k] = rows[i]

\* two rows of one permalink with 500 and 800 impressions are one post with
\* 800
PermalinkCase(rows, out) ==
    \E i, j \in DOMAIN rows :
        /\ i < j
        /\ rows[i].link # ""
        /\ rows[i].link = rows[j].link
        /\ rows[i].impressions = 500
        /\ rows[j].impressions = 800
        /\ Cardinality({k \in DOMAIN out : out[k].link = rows[i].link}) = 1
        /\ \A k \in DOMAIN out :
               out[k].link = rows[i].link => out[k].impressions = 800

\* of two rows of one identity with as many impressions the later, which
\* alone has a time of day, is the post kept
TieCase(rows, out) ==
    \E i, j \in DOMAIN rows :
        /\ i < j
        /\ LinkedInIdentity(rows[i]) = LinkedInIdentity(rows[j])
        /\ rows[i].impressions = rows[j].impressions
        /\ ~rows[i].hasTime
        /\ rows[j].hasTime
        /\ \E k \in DOMAIN out : out[k] = rows[j]

\* C7: the rows of all post files that share an identity (the permalink if
\* not empty, else text or title and creation timestamp) become exactly one
\* post; it has the most impressions of those rows, and it is the first row
\* with that many (on LinkedIn the first of them that has a time of day, if
\* one has): a later row replaces the kept one only on strictly more
\* impressions or, on LinkedIn, on a tie when it alone has a time of day.
C7_PostDedup ==
    /\ pc \in {"Promise.all", "returned"} =>
           XDeduplicated(XPostRows, xPostsData.deduped)
    /\ pc \in {"loadXPostsData", "Promise.all", "returned"} =>
           LinkedInDeduplicated(LinkedInPostRows, linkedInPostsData.uniquePosts)

\* the permalink case on X and on LinkedIn, and the tie on LinkedIn
C7_Witness ==
    /\ pc = "Promise.all"
    /\ PermalinkCase(XPostRows, xPostsData.deduped)
    /\ PermalinkCase(LinkedInPostRows, linkedInPostsData.uniquePosts)
    /\ TieCase(LinkedInPostRows, linkedInPostsData.uniquePosts)

----------------------------------------------------------------------------
(* The order of the LinkedIn post load and the LinkedIn daily load *)

\* the posts loadLinkedInPostsData kept after its dedupe that were created
\* on the UTC day of the date
UniquePostsOn(uniquePosts, date) ==
    Cardinality({j \in DOMAIN uniquePosts :
                    CivilFromDays(DayOf(uniquePosts[j].createdAt))
                        = CivilFromDays(DayOf(date))})

FinalPostCounts(list, uniquePosts) ==
    \A i \in DOMAIN list : list[i].posts = UniquePostsOn(uniquePosts, list[i].date)

\* C12: in every run of getDashboardData the LinkedIn post load, with its
\* dedupe and its day-to-post-count map, has completed before the LinkedIn
\* daily load starts, and every LinkedIn DailyMetric carries the final post
\* count of its day.
C12_PostsBeforeDaily ==
    /\ lpc # "idle" =>
           /\ linkedInPostsData # NotYet
           /\ ~linkedInPostsData.rejected
    /\ lpc = "resolved" =>
           FinalPostCounts(linkedInDailyResult.metrics,
                           linkedInPostsData.uniquePosts)

\* C12 witness: the daily load has resolved, after a post load that dropped
\* a duplicate row, and a day of the daily series carries a post
C12_Witness ==
    /\ lpc = "resolved"
    /\ Len(linkedInPostsData.uniquePosts) < Len(LinkedInPostRows)
    /\ \E i \in DOMAIN linkedInDailyResult.metrics :
           linkedInDailyResult.metrics[i].posts = 1

----------------------------------------------------------------------------
(* Failures of a dataset *)

\* the dataset has no text to offer: none of its files exists, or a file
\* that exists cannot be read
NothingRead(dataset) ==
    LET group == readCsvGroupWithFallback(dataset.raw, dataset.sample)
    IN  group.rejected \/ group.texts = <<>>

\* the dataset's entry of csvValidation reports no rows
EmptyButValid(validation) == validation.rowCount = 0

\* C13, as claimed: a run of getDashboardData never fails; whatever happens
\* to a dataset (file absent, read error, unparseable text, header not
\* found), the run completes with a DashboardData in which that dataset is
\* empty but valid. The code lets a failed read reject the run.
C13_RunNeverFails ==
    /\ pc # "rejected"
    /\ pc = "returned" =>
           \A i \in DOMAIN dashboard.csvValidation :
               NothingRead(provider[dashboard.csvValidation[i].id])
                   => EmptyButValid(dashboard.csvValidation[i])

----------------------------------------------------------------------------
(* Provenance *)

\* where a dataset's texts come from, by the files that exist
Provenance(dataset) ==
    IF \E i \in DOMAIN dataset.raw : dataset.raw[i].exists THEN "raw"
    ELSE IF dataset.sample.exists THEN "sample"
    ELSE "missing"

ProvenanceReported(csvValidation, snapshot) ==
    /\ {csvValidation[i].id : i \in DOMAIN csvValidation} = DatasetIds
    /\ \A i \in DOMAIN csvValidation :
          /\ csvValidation[i].source = Provenance(snapshot[csvValidation[i].id])
          /\ csvValidation[i].source = "missing" => csvValidation[i].rowCount = 0

\* C14: each of the five datasets is reported raw when at least one of its
\* resolved raw files exists (its sample is then not read), sample when no
\* raw file exists and the bundled sample does, and missing, without any
\* text, otherwise; usingSampleData is true exactly when at least one of the
\* five datasets is reported sample.
C14_Provenance ==
    /\ pc = "returned" =>
          /\ ProvenanceReported(dashboard.csvValidation, provider)
          /\ dashboard.usingSampleData
                <=> \E id \in DatasetIds : Provenance(provider[id]) = "sample"
    /\ \A id \in DatasetIds :
          /\ Provenance(provider[id]) = "raw"
          /\ \A i \in DOMAIN provider[id].raw :
                provider[id].raw[i].exists => provider[id].raw[i].readable
          => ~readCsvGroupWithFallback(provider[id].raw,
                                       provider[id].sample).rejected

\* C14 witness: a run that returned with a dataset of each provenance, one
\* of the raw ones beside a sample that could not have been read
C14_Witness ==
    /\ pc = "returned"
    /\ dashboard.usingSampleData
    /\ {dashboard.csvValidation[i].source : i \in DOMAIN dashboard.csvValidation}
           = {"raw", "sample", "missing"}
    /\ \E id \in DatasetIds :
          /\ Provenance(provider[id]) = "raw"
          /\ provider[id].sample.exists
          /\ ~provider[id].sample.readable

----------------------------------------------------------------------------
(* The sign of the counters *)

CountersNonNegative(list) ==
    \A i \in DOMAIN list : \A field \in MetricKeySet : list[i][field] >= 0

\* C15, as claimed: after merging, each of the 16 counters of every
\* DailyMetric is greater than or equal to 0, whatever the cells of the
\* input hold. The code reads a negative number from a cell as it stands.
C15_CountersNonNegative ==
    /\ xpc = "resolved" => CountersNonNegative(xDailyResult.metrics)
    /\ lpc = "resolved" => CountersNonNegative(linkedInDailyResult.metrics)

----------------------------------------------------------------------------
(* Spreadsheet serials, checked under SpecCalls *)

\* the instant n days after 1899-12-30T00:00Z, n the ratio <<p, q>>
DaysAfterEpoch(n) ==
    (DaysFromCivil(1899, 12, 30) * 24 * 60 * n[2] + n[1] * 24 * 60) \div n[2]

\* C16, as claimed: parseLinkedInDateTime on a numeric spreadsheet serial n
\* returns the instant 1899-12-30T00:00Z plus n days; for a whole serial that
\* is midnight UTC of the calendar day, 44927 gives 2023-01-01T00:00Z; and
\* parsing the same input twice gives the same result. The code returns
\* null for the serial 0.
C16_SerialDate ==
    Returned("parseLinkedInDateTime") =>
        /\ result[1] = Some(DaysAfterEpoch(call.raw))
        /\ call.raw[2] = 1 => result[1][1] % (24 * 60) = 0
        /\ call.raw = <<44927, 1>> =>
               /\ CivilFromDays(DayOf(result[1][1])) = <<2023, 1, 1>>
               /\ result[1][1] = DateUTC(2023, 0, 1, 0, 0)
        /\ result[2] = result[1]

----------------------------------------------------------------------------
(* The order of the merged series, checked under SpecMerge *)

Ascending(list) ==
    \A i \in 1 .. Len(list) - 1 : list[i].date <= list[i + 1].date

\* C17: the output of mergeDailyMetrics is sorted by day ascending whatever
\* the order of its input: of two consecutive output records the first is
\* not later than the second.
C17_MergedAscending ==
    /\ phase # "input" => Ascending(daily)
    /\ phase \notin {"input", "merged"} => Ascending(remerged)

\* C17 witness: a merge of records whose later days came first
C17_Witness ==
    /\ phase = "merged"
    /\ ~Ascending(metrics)
    /\ metrics[1].date > metrics[Len(metrics)].date
    /\ Len(daily) >= 4
    /\ daily[1].date < daily[Len(daily)].date

----------------------------------------------------------------------------
(* The records of a pass, checked under SpecCalls.                           *)

\* what the caller passed is as it was: every record it holds, and the order
\* of its list
InputsKept(pass) ==
    /\ SubSeq(pass.after.objects, 1, Len(pass.before.objects))
           = pass.before.objects
    /\ pass.after.arrays[1] = pass.before.arrays[1]

\* the records written during the pass were created in it
AccumulatorsCreated(pass) ==
    \E ref \in DOMAIN pass.after.objects :
        /\ ref > Len(pass.before.objects)
        /\ \A old \in DOMAIN pass.before.objects :
               pass.after.objects[ref] # pass.before.objects[old]

\* what the pass returns is what the function computes from the list
PassValue(fn, list) ==
    CASE fn = "mergeDailyMetrics" -> mergeDailyMetrics(list)
      [] fn = "aggregateByMonth"  -> aggregateByMonth(list)
      [] fn = "summarizeTotals"   -> summarizeTotals(aggregateByMonth(list))
      [] fn = "buildCoverage"     -> buildCoverage(list)
      [] fn = "buildDataQuality"  -> buildDataQuality(QualityLabel(list), list)

\* C18: mergeDailyMetrics, aggregateByMonth, summarizeTotals, buildCoverage,
\* buildDataQuality and buildDayOfWeekSummary leave every record of their
\* input and the order of their input list as they were; the records they
\* update are ones created in the same pass.
C18_InputsNotMutated ==
    (call.fn \in PassNames /\ result # NotYet) =>
        /\ InputsKept(result)
        /\ call.fn # "buildDayOfWeekSummary" =>
               result.value = PassValue(call.fn, call.list)

\* a merge of two exports of the same days has returned: the later export had
\* higher counters, which were written to a copy
C18_Witness ==
    /\ Returned("mergeDailyMetrics")
    /\ \E i, j \in DOMAIN call.list :
           /\ i < j
           /\ MergeKey(call.list[i]) = MergeKey(call.list[j])
           /\ call.list[j].engagements > call.list[i].engagements
    /\ AccumulatorsCreated(result)

----------------------------------------------------------------------------
(* The two daily loads of Promise.all. The platform-A load resumes twice,    *)
(* after the video overview's files and after its own; the platform-B load   *)
(* resumes once; the steps interleave in every order.                        *)

\* the loads one after the other: each in full, from the snapshot
SequentialXDaily ==
    loadXDailyMetrics(loadXVideoOverviewByDate(provider["x-video-overview"],
                                               hostOffset),
                      provider["x-daily"], hostOffset)

SequentialLinkedInPosts ==
    loadLinkedInPostsData(provider["linkedin-posts"], hostOffset)

SequentialLinkedInDaily ==
    loadLinkedInDailyMetrics(SequentialLinkedInPosts.postsByDate,
                             provider["linkedin-daily"], hostOffset)

SequentialXPosts == loadXPostsData(provider["x-posts"], hostOffset)

SequentialDashboard ==
    DashboardData(SequentialXDaily, SequentialLinkedInDaily, SequentialXPosts,
                  SequentialLinkedInPosts,
                  buildPlatformData(SequentialXDaily.metrics
                                    \o SequentialLinkedInDaily.metrics),
                  CsvValidationList(SequentialXDaily, SequentialLinkedInDaily,
                                    SequentialXPosts, SequentialLinkedInPosts))

\* what a load has produced does not depend on how far the other has come
LoadsAsSequential ==
    /\ xDailyResult # NotYet => xDailyResult = SequentialXDaily
    /\ linkedInDailyResult # NotYet =>
           linkedInDailyResult = SequentialLinkedInDaily
    /\ pc = "returned" => dashboard = SequentialDashboard

\* once Promise.all has started its loads, the post data is left as it is
PostsOnlyRead == lpc # "idle" => linkedInPostsData' = linkedInPostsData

\* C19: the platform-A daily load, with its video-overview load, and the
\* platform-B daily load share no mutable state: in every interleaving of
\* their steps each load's result, and the DashboardData returned, are those
\* of the loads run one after the other, and the day-to-post-count map given
\* to the platform-B load is not written while they run.
C19_LoadsIndependent == [](LoadsAsSequential) /\ [][PostsOnlyRead]_vars

\* the platform-B load has resolved between the two steps of the platform-A
\* load, and has read post counts from the map
C19_Witness ==
    /\ pc = "Promise.all"
    /\ xpc = "loadXDailyMetrics"
    /\ lpc = "resolved"
    /\ linkedInPostsData.postsByDate # <<>>
    /\ \E i \in DOMAIN linkedInDailyResult.metrics :
           linkedInDailyResult.metrics[i].posts > 0

----------------------------------------------------------------------------
(* The LinkedIn top posts by impressions.                                    *)

\* a post comes before another in the ranking, or level with it
RankedBefore(a, b) ==
    \/ a.impressions > b.impressions
    \/ a.impressions = b.impressions /\ a.views >= b.views

\* C20: the LinkedIn top posts are at most 5 of the deduplicated posts, in
\* descending order of impressions and, on equal impressions, of views, and
\* no deduplicated post left out of the list has more impressions than a
\* post in it.
C20_TopPostsByImpressions ==
    (linkedInPostsData # NotYet /\ ~linkedInPostsData.rejected) =>
        /\ Len(linkedInPostsData.topPosts) <= 5
        /\ \A i \in DOMAIN linkedInPostsData.topPosts :
               linkedInPostsData.topPosts[i]
                   \in Range(Summaries(linkedInPostsData.uniquePosts))
        /\ \A i, j \in DOMAIN linkedInPostsData.topPosts :
               i < j => RankedBefore(linkedInPostsData.topPosts[i],
                                     linkedInPostsData.topPosts[j])
        /\ \A post \in Range(Summaries(linkedInPostsData.uniquePosts))
                          \ Range(linkedInPostsData.topPosts) :
               \A i \in DOMAIN linkedInPostsData.topPosts :
                   post.impressions <= linkedInPostsData.topPosts[i].impressions

----------------------------------------------------------------------------
(* The content-type rollups of the LinkedIn posts.                           *)

\* the deduplicated posts of a label, a blank label read as "Unknown"
PostsOfType(posts, label) ==
    SelectSeq(posts, LAMBDA post :
        post.contentType = label \/ (label = "Unknown" /\ post.contentType = ""))

TypeLabels(posts) ==
    { IF posts[i].contentType = "" THEN "Unknown" ELSE posts[i].contentType :
        i \in DOMAIN posts }

\* the sum of likes, comments and reposts over a list of posts
Engagements(posts) ==
    SumField(posts, "likes") + SumField(posts, "comments")
        + SumField(posts, "reposts")

\* a group holds the sums over the posts of its label
GroupIsSum(group, posts) ==
    /\ group.posts = Len(posts)
    /\ group.posts > 0
    /\ group.impressions = SumField(posts, "impressions")
    /\ group.views = SumField(posts, "views")
    /\ group.engagements = Engagements(posts)

ContentTypesAsClaimed(contentTypes, posts) ==
    /\ Len(contentTypes) =
           IF Cardinality(TypeLabels(posts)) < 6
           THEN Cardinality(TypeLabels(posts)) ELSE 6
    /\ \A i \in DOMAIN contentTypes :
           /\ contentTypes[i].type \in TypeLabels(posts)
           /\ GroupIsSum(contentTypes[i], PostsOfType(posts, contentTypes[i].type))
    /\ \A i, j \in DOMAIN contentTypes :
           i < j => /\ contentTypes[i].type # contentTypes[j].type
                    /\ contentTypes[i].impressions >= contentTypes[j].impressions
    /\ \A label \in TypeLabels(posts) \ {contentTypes[i].type : i \in DOMAIN contentTypes} :
           \A i \in DOMAIN contentTypes :
               SumField(PostsOfType(posts, label), "impressions")
                   <= contentTypes[i].impressions

\* C21: the deduplicated LinkedIn posts are grouped by content-type label,
\* "Unknown" for a blank label; a group's posts, impressions, views and
\* engagements are the sums over its posts, each post is in exactly one group,
\* and the output is the at most 6 groups of most impressions, descending.
C21_ContentTypes ==
    (linkedInPostsData # NotYet /\ ~linkedInPostsData.rejected) =>
        ContentTypesAsClaimed(linkedInPostsData.contentTypes,
                              linkedInPostsData.uniquePosts)

\* posts of eight labels, two of them without a label and two under one
\* label with comments and reposts, have been rolled up into six groups
C21_Witness ==
    /\ linkedInPostsData # NotYet
    /\ ~linkedInPostsData.rejected
    /\ Cardinality(TypeLabels(linkedInPostsData.uniquePosts)) = 8
    /\ Len(linkedInPostsData.contentTypes) = 6
    /\ \E i \in DOMAIN linkedInPostsData.contentTypes :
           /\ linkedInPostsData.contentTypes[i].type = "Unknown"
           /\ linkedInPostsData.contentTypes[i].posts = 2
    /\ \E i \in DOMAIN linkedInPostsData.contentTypes :
           /\ linkedInPostsData.contentTypes[i].type = "Video"
           /\ linkedInPostsData.contentTypes[i].posts = 2
           /\ linkedInPostsData.contentTypes[i].engagements = 10

----------------------------------------------------------------------------
(* The time-slot rollups of the LinkedIn posts.                              *)

\* the slot of a post: its day of the week, and its hour where the cell of
\* its creation date holds a time of day
SlotOfPost(post) ==
    <<(DayOf(post.createdAt) + 4) % 7,
      IF post.hasTime THEN <<(post.createdAt % dayMs) \div 60>> ELSE <<>> >>

SlotsOfPosts(posts) == {SlotOfPost(posts[i]) : i \in DOMAIN posts}

PostsOfSlot(posts, slot) ==
    SelectSeq(posts, LAMBDA post : SlotOfPost(post) = slot)

SlotId(entry) ==
    <<CHOOSE d \in 0..6 : dayNames[d + 1] = entry.day, entry.hour>>

\* an entry holds the sums over the posts of its slot, and their quotient
SlotIsSum(entry, posts) ==
    /\ entry.posts = Len(posts)
    /\ entry.posts > 0
    /\ entry.impressions = SumField(posts, "impressions")
    /\ entry.engagements = Engagements(posts)
    /\ entry.engagementRate =
           IF SumField(posts, "impressions") = 0 THEN Null
           ELSE <<Engagements(posts), SumField(posts, "impressions")>>

\* the rate of an entry is not below that of another, no rate read as 0
RateNotBelow(a, b) ==
    RateOrZero(b.engagementRate)[1] * RateOrZero(a.engagementRate)[2]
        <= RateOrZero(a.engagementRate)[1] * RateOrZero(b.engagementRate)[2]

BestTimesAsClaimed(bestTimes, posts) ==
    /\ Len(bestTimes) = IF Cardinality(SlotsOfPosts(posts)) < 5
                        THEN Cardinality(SlotsOfPosts(posts)) ELSE 5
    /\ \A i \in DOMAIN bestTimes :
           /\ SlotId(bestTimes[i]) \in SlotsOfPosts(posts)
           /\ SlotIsSum(bestTimes[i], PostsOfSlot(posts, SlotId(bestTimes[i])))
    /\ \A i, j \in DOMAIN bestTimes :
           i < j => /\ SlotId(bestTimes[i]) # SlotId(bestTimes[j])
                    /\ RateNotBelow(bestTimes[i], bestTimes[j])
    /\ \A slot \in SlotsOfPosts(posts) \ {SlotId(bestTimes[i]) : i \in DOMAIN bestTimes} :
           \A i \in DOMAIN bestTimes :
               RateNotBelow(bestTimes[i],
                   [engagementRate |->
                       SlotRate(SumField(PostsOfSlot(posts, slot), "impressions"),
                                Engagements(PostsOfSlot(posts, slot)))])

\* C22: each deduplicated LinkedIn post is accumulated into exactly one time
\* slot, that of its day of the week and hour when its time of day is known
\* and of its day of the week alone otherwise; a slot's engagement rate is
\* its engagements over its impressions, null when its impressions are zero;
\* the output is at most 5 slots, none empty, by engagement rate descending.
C22_BestTimes ==
    (linkedInPostsData # NotYet /\ ~linkedInPostsData.rejected) =>
        BestTimesAsClaimed(linkedInPostsData.bestTimes,
                           linkedInPostsData.uniquePosts)

\* posts of more than five slots have been rolled up: two posts share the
\* hour of a day, and a post without a time of day is in the slot of its day
C22_Witness ==
    /\ linkedInPostsData # NotYet
    /\ ~linkedInPostsData.rejected
    /\ Cardinality(SlotsOfPosts(linkedInPostsData.uniquePosts)) > 5
    /\ Len(linkedInPostsData.bestTimes) = 5
    /\ \E i \in DOMAIN linkedInPostsData.bestTimes :
           /\ linkedInPostsData.bestTimes[i].hour = Some(9)
           /\ linkedInPostsData.bestTimes[i].posts = 2
    /\ \E i \in DOMAIN linkedInPostsData.bestTimes :
           linkedInPostsData.bestTimes[i].hour = Null

----------------------------------------------------------------------------
(* The post counts of the LinkedIn daily records.                            *)

\* the entry of a day in the day-to-post-count map, 0 where it has none
CountOfDay(postsByDate, date) ==
    IF \E i \in DOMAIN postsByDate : postsByDate[i][1] = toDayKey(date)
    THEN (CHOOSE pair \in Range(postsByDate) : pair[1] = toDayKey(date))[2]
    ELSE 0

PostsFromMap(list, postsData) ==
    \A i \in DOMAIN list :
        /\ list[i].posts = CountOfDay(postsData.postsByDate, list[i].date)
        /\ list[i].posts =
               Cardinality({j \in DOMAIN postsData.uniquePosts :
                               DayOf(postsData.uniquePosts[j].createdAt)
                                   = DayOf(list[i].date)})

\* C23: the posts counter of every LinkedIn DailyMetric is the number of
\* deduplicated LinkedIn posts created on the record's UTC day, as the
\* day-to-post-count map has it and 0 where the map has no entry; it is not
\* read from the metrics file, and the merge of overlapping files leaves it
\* as the rows had it.
C23_PostsOfDay ==
    lpc = "resolved" =>
        /\ PostsFromMap(LinkedInDailyInput, linkedInPostsData)
        /\ PostsFromMap(linkedInDailyResult.metrics, linkedInPostsData)

\* two files that overlap on Feb 1, one of them with a Posts column that
\* says 9, have been merged: the day has the 2 posts of the map, and a day
\* without an entry in the map has 0
C23_Witness ==
    /\ lpc = "resolved"
    /\ LinkedInDailyPostsColumn \in Range(provider["linkedin-daily"].raw)
    /\ Len(LinkedInDailyInput) > Len(linkedInDailyResult.metrics)
    /\ \E i \in DOMAIN linkedInDailyResult.metrics :
           /\ linkedInDailyResult.metrics[i].date = DateUTC(2023, 1, 1, 0, 0)
           /\ linkedInDailyResult.metrics[i].posts = 2
    /\ \E i \in DOMAIN linkedInDailyResult.metrics :
           /\ linkedInDailyResult.metrics[i].posts = 0
           /\ CountOfDay(linkedInPostsData.postsByDate,
                         linkedInDailyResult.metrics[i].date) = 0

----------------------------------------------------------------------------
(* Rows without a date in the daily and the video-overview mappings.         *)

XDailyRows == ReadDataset(provider["x-daily"], "Date").rows

XVideoRows == ReadDataset(provider["x-video-overview"], "Date").rows

LinkedInDailyRows == ReadDataset(provider["linkedin-daily"], "Date").rows

\* the rows of an input whose date cell is not a date
XDefects(rows) ==
    {k \in DOMAIN rows : parseXDate(pickField(rows[k], <<"Date">>), hostOffset) = Null}

LinkedInDefects(rows) ==
    {k \in DOMAIN rows :
        parseLinkedInDate(pickField(rows[k], <<"Date">>), hostOffset) = Null}

\* the input without its row k
Without(rows, k) == SubSeq(rows, 1, k - 1) \o SubSeq(rows, k + 1, Len(rows))

\* the other rows, in their order
Others(rows, defects) ==
    SelectSeq([i \in DOMAIN rows |-> <<i, rows[i]>>],
              LAMBDA pair : pair[1] \notin defects)

\* the records of the other rows, each mapped alone
RecordsAlone(input, others, Records(_)) ==
    /\ Len(input) = Len(others)
    /\ \A i \in DOMAIN input : <<input[i]>> = Records(<<others[i][2]>>)

\* a row without a date gives no record, and the result without it is the
\* same
DefectsDropped(rows, defects, output, Result(_)) ==
    \A k \in defects :
        /\ Result(<<rows[k]>>) = <<>>
        /\ output = Result(Without(rows, k))

XRecordsOf(rows) == XDailyRecords(rows, xVideo.videoMap, hostOffset)

LinkedInRecordsOf(rows) ==
    LinkedInDailyRecords(rows, linkedInPostsData.postsByDate, hostOffset)

XMergedOf(rows) == mergeDailyMetrics(XRecordsOf(rows))

LinkedInMergedOf(rows) == mergeDailyMetrics(LinkedInRecordsOf(rows))

VideoMapOf(rows) == VideoAll(<<>>, rows, hostOffset)

RowsIsolated(rows, defects, output, Records(_), Result(_)) ==
    /\ RecordsAlone(Records(rows), Others(rows, defects), Records)
    /\ DefectsDropped(rows, defects, output, Result)

\* C24: in the daily-metric and the video-overview mappings a row whose date
\* cannot be parsed gives no record, and every other row gives the record it
\* gives without that row in the input.
C24_RowDefectsIsolated ==
    /\ (xVideo # NotYet /\ ~xVideo.rejected) =>
           DefectsDropped(XVideoRows, XDefects(XVideoRows), xVideo.videoMap,
                          VideoMapOf)
    /\ xpc = "resolved" =>
           RowsIsolated(XDailyRows, XDefects(XDailyRows), xDailyResult.metrics,
                        XRecordsOf, XMergedOf)
    /\ lpc = "resolved" =>
           RowsIsolated(LinkedInDailyRows, LinkedInDefects(LinkedInDailyRows),
                        linkedInDailyResult.metrics, LinkedInRecordsOf,
                        LinkedInMergedOf)

\* the three mappings have run on inputs that each hold a row without a
\* date followed by rows with one
C24_Witness ==
    /\ xpc = "resolved"
    /\ lpc = "resolved"
    /\ \E k \in XDefects(XDailyRows) : k < Len(XDailyRows)
    /\ \E k \in XDefects(XVideoRows) : k < Len(XVideoRows)
    /\ \E k \in LinkedInDefects(LinkedInDailyRows) : k < Len(LinkedInDailyRows)
    /\ Len(xVideo.videoMap) = 2
    /\ Len(xDailyResult.metrics) > 4

----------------------------------------------------------------------------
(* The order of the input of the merge, checked under SpecMerge.             *)

\* a list in other orders: reversed, rotated, and with two neighbours swapped
Reversed(list) == [i \in DOMAIN list |-> list[Len(list) + 1 - i]]

Rotated(list, k) == SubSeq(list, k + 1, Len(list)) \o SubSeq(list, 1, k)

Swapped(list, k) ==
    [i \in DOMAIN list |->
        IF i = k THEN list[k + 1] ELSE IF i = k + 1 THEN list[k] ELSE list[i]]

Reorderings(list) ==
    {Reversed(list)}
    \cup {Rotated(list, k) : k \in 1 .. Len(list) - 1}
    \cup {Swapped(list, k) : k \in 1 .. Len(list) - 1}
    \cup {Reversed(Swapped(list, k)) : k \in 1 .. Len(list) - 1}

\* the (platform, day) keys of a series, each with its 16 counters
CountersByKey(list) ==
    { <<list[i].source, toDayKey(list[i].date),
        [k \in DOMAIN METRIC_KEYS |-> list[i][METRIC_KEYS[k]]]>> :
        i \in DOMAIN list }

\* C25: mergeDailyMetrics does not depend on the order of its input: the
\* outputs for two orders of the same records hold the same (platform, day)
\* keys, each with the same values of the 16 counters.
C25_MergeOrderInsensitive ==
    Merged =>
        \A other \in Reorderings(metrics) :
            CountersByKey(mergeDailyMetrics(other)) = CountersByKey(daily)

\* two exports of the same days, the one with higher and with lower
\* counters than the other, have been merged; in another order the records
\* of a day come the other way round
C25_Witness ==
    /\ Merged
    /\ \E i, n \in DOMAIN metrics :
           /\ i < n
           /\ MergeKey(metrics[i]) = MergeKey(metrics[n])
           /\ metrics[i].views > metrics[n].views
           /\ metrics[i].likes < metrics[n].likes
    /\ Reversed(metrics) # metrics
    /\ Len(daily) < Len(metrics)

----------------------------------------------------------------------------
(* The combined totals.                                                      *)

TotalsFields == Range(METRIC_KEYS) \cup {"days"}

TotalsAdd(combinedData, xData, linkedinData) ==
    /\ \A field \in TotalsFields :
           combinedData.totals[field]
               = xData.totals[field] + linkedinData.totals[field]
    /\ combinedData.coverage.days
           = xData.coverage.days + linkedinData.coverage.days

\* C26: in every run each of the 16 counters and days of the combined Totals
\* is the X Totals value plus the LinkedIn Totals value, and the combined
\* coverage days are the sum of the coverage days of the two platforms.
C26_CombinedTotalsAdd ==
    pc = "returned" =>
        TotalsAdd(dashboard.combined, dashboard.x, dashboard.linkedin)

\* a run has returned in which both platforms have records, some of them on
\* the same day
C26_Witness ==
    /\ pc = "returned"
    /\ dashboard.x.totals.views > 0
    /\ dashboard.linkedin.totals.views > 0
    /\ dashboard.linkedin.totals.posts > 0
    /\ \E i \in DOMAIN dashboard.x.daily :
           \E j \in DOMAIN dashboard.linkedin.daily :
               dashboard.x.daily[i].date = dashboard.linkedin.daily[j].date
    /\ dashboard.combined.coverage.days > dashboard.x.coverage.days

----------------------------------------------------------------------------
(* The missing days of the three series of dataQuality.                      *)

\* the calendar days from the first to the last record of a series on which
\* it has no record
DaysWithoutRecord(list) ==
    {day \in DayOf(buildCoverage(list).start[1])
                 .. DayOf(buildCoverage(list).end[1]) :
        \A i \in DOMAIN list : DayOf(list[i].date) # day}

MissingDaysCounted(summary, list) ==
    list # <<>> => summary.missingDays = Some(Cardinality(DaysWithoutRecord(list)))

\* C27: for each of the series X, LinkedIn and Combined of dataQuality,
\* missingDays is the number of calendar days between the start and the end
\* of the series on which the series has no record (for Combined: no record
\* of either platform).
C27_MissingDays ==
    pc = "returned" =>
        /\ MissingDaysCounted(dashboard.dataQuality[1], dashboard.x.daily)
        /\ MissingDaysCounted(dashboard.dataQuality[2], dashboard.linkedin.daily)
        /\ MissingDaysCounted(dashboard.dataQuality[3], dashboard.combined.daily)

----------------------------------------------------------------------------
(* C28: parseXDate and the host's time zone, checked under SpecCalls         *)

\* the calendar day a date-only cell names, as its UTC midnight: the year,
\* month and day written in the cell, whichever of the two forms it has
DayNamed(raw) == DateOfPieces(Split(raw, "-"), Split(raw, "/"), 0)

\* C28, as claimed: for every valid date-only input and every host UTC
\* offset, parseXDate returns midnight UTC of the calendar day the input
\* names, so it returns the same day on every host
C28_HostIndependent ==
    (Returned("parseXDate") /\ DayNamed(call.raw) # Null) =>
        result[1] = DayNamed(call.raw)

----------------------------------------------------------------------------
(* C29: the posts of the LinkedIn post files are counted once each           *)

\* the values of the day-to-post-count map, summed
PostsCounted(postsByDate) == SumSeq(MapValues(postsByDate))

\* the posts the rows tell apart
PostIdentities(rawPosts) ==
    {LinkedInIdentity(rawPosts[i]) : i \in DOMAIN rawPosts}

\* the unique posts created on a day the list has no record of
PostsWithoutRecord(uniquePosts, list) ==
    {j \in DOMAIN uniquePosts :
        \A i \in DOMAIN list :
            DayOf(list[i].date) # DayOf(uniquePosts[j].createdAt)}

PostsConserved(rawPosts, postsData, list, totals_) ==
    /\ Len(postsData.uniquePosts) = Cardinality(PostIdentities(rawPosts))
    /\ PostsCounted(postsData.postsByDate) = Len(postsData.uniquePosts)
    /\ \A j \in DOMAIN postsData.uniquePosts :
           CountOfDay(postsData.postsByDate, postsData.uniquePosts[j].createdAt)
               = Cardinality({k \in DOMAIN postsData.uniquePosts :
                                 DayOf(postsData.uniquePosts[k].createdAt)
                                     = DayOf(postsData.uniquePosts[j].createdAt)})
    /\ totals_.posts <= Len(postsData.uniquePosts)
    /\ totals_.posts = Len(postsData.uniquePosts)
                          - Cardinality(PostsWithoutRecord(postsData.uniquePosts,
                                                           list))

\* C29: the values of the day-to-post-count map sum to the number of
\* deduplicated LinkedIn posts, each post counted once on its creation day
\* and the rows of one post never twice, and the posts of the LinkedIn
\* Totals are at most that number, short of it by exactly the posts created
\* on days without a LinkedIn daily record.
C29_PostsConserved ==
    pc = "returned" =>
        PostsConserved(LinkedInPostRows, linkedInPostsData,
                       dashboard.linkedin.daily, dashboard.linkedin.totals)

\* a post has two rows, one day has two posts, and posts fall on days
\* without a daily record
C29_Witness ==
    /\ pc = "returned"
    /\ Len(LinkedInPostRows) > Len(linkedInPostsData.uniquePosts)
    /\ \E i \in DOMAIN linkedInPostsData.postsByDate :
           linkedInPostsData.postsByDate[i][2] > 1
    /\ dashboard.linkedin.totals.posts > 0
    /\ dashboard.linkedin.totals.posts < Len(linkedInPostsData.uniquePosts)

----------------------------------------------------------------------------
(* C30: the engagement rate of a post                                        *)

\* the cell holds a finite number as Number reads it (a cell of blanks is 0)
RateCellParses(cell) == cell # "" /\ StringToNumber(cell) # Null

\* (likes + secondary + reposts) / impressions, null without impressions
Fallback(impressions, engaged) ==
    IF impressions = 0 THEN Null ELSE <<engaged, impressions>>

RateAsClaimed(cell, rate, fallback) ==
    /\ RateCellParses(cell) => rate = StringToNumber(cell)
    /\ ~RateCellParses(cell) => rate = fallback
    /\ rate = Null => (~RateCellParses(cell) /\ fallback = Null)

\* the row is one the post can have been read from
IsRowOfXPost(row, post) ==
    /\ trim(pickField(row, <<"Post Link", "Tweet permalink", "URL", "Tweet URL",
                              "Permalink">>)) = post.link
    /\ sanitizeTitle(decodeHtmlEntities(trim(pickField(row,
            <<"Tweet text", "Text", "Post text", "Tweet", "Post">>)))) = post.text
    /\ toNumber(pickField(row, <<"Impressions">>)) = post.impressions
    /\ toNumber(pickField(row, <<"Likes">>)) = post.likes
    /\ toNumber(pickField(row, <<"Replies">>)) = post.replies
    /\ toNumber(pickField(row, <<"Reposts", "Retweets", "Retweets (organic)">>))
           = post.reposts

IsRowOfLinkedInPost(row, post) ==
    /\ trim(pickField(row, <<"Post link">>)) = post.link
    /\ sanitizeTitle(trim(pickField(row, <<"Post title">>))) = post.title
    /\ toNumber(pickField(row, <<"Impressions">>)) = post.impressions
    /\ toNumber(pickField(row, <<"Likes">>)) = post.likes
    /\ toNumber(pickField(row, <<"Comments">>)) = post.comments
    /\ toNumber(pickField(row, <<"Reposts">>)) = post.reposts

XRateCell(row) == pickField(row, <<"Engagement rate">>)

LinkedInRateCell(row) ==
    pickField(row, <<"Engagement rate", "Engagement rate (total)">>)

Replies(post) == post.replies

Comments(post) == post.comments

\* every post has a row, and its rate is as claimed of each row it can have
\* been read from
PostRatesAsClaimed(rows, posts, IsRowOf(_, _), Cell(_), Secondary(_)) ==
    \A j \in DOMAIN posts :
        /\ \E i \in DOMAIN rows : IsRowOf(rows[i], posts[j])
        /\ \A i \in DOMAIN rows :
               IsRowOf(rows[i], posts[j]) =>
                   RateAsClaimed(Cell(rows[i]), posts[j].engagementRate,
                                 Fallback(posts[j].impressions,
                                          posts[j].likes + Secondary(posts[j])
                                              + posts[j].reposts))

====
